---- MODULE Spec2Model ----
(***************************************************************************)
(* Excel translation pipeline (packages/cdk/lambda-python/excel-translator) *)
(*                                                                         *)
(*   prepare_handler.py          Prepare: scan, dedup, partition, persist   *)
(*   translate_batch_handler.py  Map unit: translate one batch, progress    *)
(*   merge_handler.py            Merge: union maps, rewrite cells, finalize *)
(*   handler.py                  the single-invocation (legacy) translator  *)
(*                                                                         *)
(* Python strings are sequences of one-character strings; a few multi-     *)
(* letter tokens stand for single non-ASCII code points (see NonAscii).    *)
(* Python values are tagged records: None, Str(s), Num.                    *)
(***************************************************************************)
EXTENDS Integers, Sequences, FiniteSets, TLC

\* ------------------------------------------------------------------------
\* Bounds of the model
\* ------------------------------------------------------------------------
\* cells of the source document
NumCells == 3
\* re-dispatches of Map units per execution of the state machine
MaxRedispatch == 1
\* executions of the state machine for the one job id
MaxExecutions == 2
\* failures injected into one behaviour: calls of the blob store, of the
\* job store, of the document library and of the inference service that fail
MaxFaults == 2
\* length of the enumerated texts given to the classifier on its own
MaxTextLen == 2
\* calls of the classifier in one behaviour
MaxClassifyCalls == 2
\* lines or array items of a response given to the parser on its own
MaxLines == 3
\* seconds between startTime and the progress update of a Map unit
MaxElapsed == 9
\* characters of a job id, and artifacts written, when several jobs share
\* the blob store
MaxJobIdLen == 2
MaxObjects == 2

\* prepare_handler.py: BATCH_SIZE = 100; scaled down so that documents of
\* NumCells cells are split into more than one batch.
BATCH_SIZE == 2

\* ------------------------------------------------------------------------
\* Python values
\* ------------------------------------------------------------------------
None == [t |-> "none"]
Num == [t |-> "num"]
Str(s) == [t |-> "str", s |-> s]

IsStr(v) == v.t = "str"

Max(a, b) == IF a >= b THEN a ELSE b
Min(a, b) == IF a <= b THEN a ELSE b

\* ------------------------------------------------------------------------
\* Characters
\* ------------------------------------------------------------------------
Digits == {"0", "1", "2", "3", "4", "5", "6", "7", "8", "9"}
LowerAscii == {"a", "b", "c", "d", "e", "f", "g", "h", "i", "j", "k", "l",
               "m", "n", "o", "p", "q", "r", "s", "t", "u", "v", "w", "x",
               "y", "z"}
UpperAscii == {"A", "B", "C", "D", "E", "F", "G", "H", "I", "J", "K", "L",
               "M", "N", "O", "P", "Q", "R", "S", "T", "U", "V", "W", "X",
               "Y", "Z"}
AsciiLetters == LowerAscii \cup UpperAscii
Whitespace == {" ", "\t", "\n"}
\* ASCII punctuation admitted by the ASCII-only short text character class
\* (BACKQUOTE stands for the grave accent)
AsciiPunct == {".", ",", ";", ":", "!", "?", "'", "\"", "(", ")", "-", "_",
               "@", "#", "$", "%", "&", "*", "+", "=", "/", "<", ">", "\\",
               "|", "{", "}", "[", "]", "BACKQUOTE", "~"}
\* non-ASCII letters: U+5E74, U+6708, U+65E5, U+5186 and a generic kana
NonAsciiLetters == {"NEN", "GATSU", "NICHI", "EN", "KANA"}
\* non-ASCII currency signs: euro, pound, yen, won
NonAsciiCurrency == {"EUR", "GBP", "YEN", "WON"}
\* \w of a Python 3 str pattern
WordChars == AsciiLetters \cup Digits \cup {"_"} \cup NonAsciiLetters

\* str.isalpha() of one character
isalpha(c) == c \in AsciiLetters \cup NonAsciiLetters

\* ------------------------------------------------------------------------
\* str methods
\* ------------------------------------------------------------------------
RECURSIVE lstrip(_)
lstrip(s) ==
    IF Len(s) > 0 /\ Head(s) \in Whitespace THEN lstrip(Tail(s)) ELSE s

RECURSIVE rstrip(_)
rstrip(s) ==
    IF Len(s) > 0 /\ s[Len(s)] \in Whitespace
    THEN rstrip(SubSeq(s, 1, Len(s) - 1))
    ELSE s

\* str.strip()
strip(s) == rstrip(lstrip(s))

\* len(text.split()): the number of maximal runs of non-whitespace
WordCount(s) ==
    Cardinality({i \in 1..Len(s) :
        /\ s[i] \notin Whitespace
        /\ (i = 1 \/ s[i - 1] \in Whitespace)})

\* the number of digits: len(re.sub(NONDIGITS, EMPTY, text))
DigitCount(s) == Cardinality({i \in 1..Len(s) : s[i] \in Digits})

\* str.startswith for a one-character prefix
startswith(s, c) == Len(s) > 0 /\ s[1] = c

\* ------------------------------------------------------------------------
\* Regular expressions (re.match): a pattern is a tree of
\*   Chr(set)        one character of the set
\*   Cat(<<...>>)    concatenation
\*   Rep(r, lo, hi)  lo..hi repetitions, hi = Unbounded for * and +
\* ------------------------------------------------------------------------
Unbounded == -1
Chr(cs) == [k |-> "chr", cs |-> cs]
Cat(rs) == [k |-> "cat", rs |-> rs]
Rep(r, lo, hi) == [k |-> "rep", r |-> r, lo |-> lo, hi |-> hi]
Lit(c) == Chr({c})
Opt(r) == Rep(r, 0, 1)
Star(r) == Rep(r, 0, Unbounded)
Plus(r) == Rep(r, 1, Unbounded)

\* the positions at which a match of re can end when it starts at a
\* position of from (positions are 1..Len(s)+1)
RECURSIVE Ends(_, _, _)
Ends(re, s, from) ==
    IF from = {} THEN {}
    ELSE CASE re.k = "chr" ->
                {i + 1 : i \in {j \in from : j <= Len(s) /\ s[j] \in re.cs}}
           [] re.k = "cat" ->
                IF Len(re.rs) = 0 THEN from
                ELSE Ends(Cat(Tail(re.rs)), s, Ends(Head(re.rs), s, from))
           [] re.k = "rep" ->
                IF re.hi = 0 THEN from
                ELSE (IF re.lo = 0 THEN from ELSE {}) \cup
                     Ends(Rep(re.r, Max(re.lo - 1, 0),
                              IF re.hi = Unbounded THEN Unbounded
                              ELSE re.hi - 1),
                          s, Ends(re.r, s, from) \ from)

\* re.match(  ^...$, text) on a stripped text
FullMatch(re, s) == (Len(s) + 1) \in Ends(re, s, {1})
\* re.match(  ^... , text)
PrefixMatch(re, s) == Ends(re, s, {1}) # {}

D == Chr(Digits)
DRange(lo, hi) == Rep(D, lo, hi)
DashSlash == Chr({"-", "/"})

\*   ^-?[\d,\s]+\.?\d*%?$
ReNumber ==
    Cat(<<Opt(Lit("-")), Plus(Chr(Digits \cup {","} \cup Whitespace)),
          Opt(Lit(".")), Star(D), Opt(Lit("%"))>>)
\*   ^\d{4}[-/]\d{1,2}[-/]\d{1,2}$
ReDateYMD == Cat(<<DRange(4, 4), DashSlash, DRange(1, 2), DashSlash, DRange(1, 2)>>)
\*   ^\d{1,2}[-/]\d{1,2}[-/]\d{4}$
ReDateDMY4 == Cat(<<DRange(1, 2), DashSlash, DRange(1, 2), DashSlash, DRange(4, 4)>>)
\*   ^\d{1,2}[-/]\d{1,2}[-/]\d{2}$
ReDateDMY2 == Cat(<<DRange(1, 2), DashSlash, DRange(1, 2), DashSlash, DRange(2, 2)>>)
\*   ^\d{4}<U+5E74>\d{1,2}<U+6708>\d{1,2}<U+65E5>$
ReDateJa ==
    Cat(<<DRange(4, 4), Lit("NEN"), DRange(1, 2), Lit("GATSU"), DRange(1, 2),
          Lit("NICHI")>>)
date_patterns == <<ReDateYMD, ReDateDMY4, ReDateDMY2, ReDateJa>>
\*   ^\d{1,2}:\d{2}(:\d{2})?(\s*[APap][Mm])?$
ReTime ==
    Cat(<<DRange(1, 2), Lit(":"), DRange(2, 2),
          Opt(Cat(<<Lit(":"), DRange(2, 2)>>)),
          Opt(Cat(<<Star(Chr(Whitespace)), Chr({"A", "P", "a", "p"}),
                    Chr({"M", "m"})>>))>>)
\*   ^https?://  with re.IGNORECASE
ReUrl ==
    Cat(<<Chr({"h", "H"}), Chr({"t", "T"}), Chr({"t", "T"}), Chr({"p", "P"}),
          Opt(Chr({"s", "S"})), Lit(":"), Lit("/"), Lit("/")>>)
\*   ^[\w\.-]+@[\w\.-]+\.\w+$
ReEmail ==
    Cat(<<Plus(Chr(WordChars \cup {".", "-"})), Lit("@"),
          Plus(Chr(WordChars \cup {".", "-"})), Lit("."), Plus(Chr(WordChars))>>)
\*   ^[\d\s\-\+\(\)]+$
RePhone == Plus(Chr(Digits \cup Whitespace \cup {"-", "+", "(", ")"}))
\*   ^[$<euro><pound><yen><won>]\s*[\d,]+\.?\d*$
ReCurrencyPrefix ==
    Cat(<<Chr({"$"} \cup NonAsciiCurrency), Star(Chr(Whitespace)),
          Plus(Chr(Digits \cup {","})), Opt(Lit(".")), Star(D)>>)
\*   ^[\d,]+\.?\d*\s*[$<euro><pound><yen><won><U+5186>]$
ReCurrencySuffix ==
    Cat(<<Plus(Chr(Digits \cup {","})), Opt(Lit(".")), Star(D),
          Star(Chr(Whitespace)), Chr({"$", "EN"} \cup NonAsciiCurrency)>>)
\*   ^[A-Za-z0-9\s\.,;:!?\ "()\-_@#$%&*+=/<>\\|{}\[\]`~]+$
ReAscii == Plus(Chr(AsciiLetters \cup Digits \cup Whitespace \cup AsciiPunct))
\*   ^[A-Z][A-Za-z0-9_]+$
ReCamel == Cat(<<Chr(UpperAscii), Plus(Chr(AsciiLetters \cup Digits \cup {"_"}))>>)
\*   ^[a-z_][a-z0-9_]*$
ReSnake ==
    Cat(<<Chr(LowerAscii \cup {"_"}), Star(Chr(LowerAscii \cup Digits \cup {"_"}))>>)
\*   ^[A-Za-z]:\\ 
ReDrive == Cat(<<Chr(AsciiLetters), Lit(":"), Lit("\\")>>)

\* ------------------------------------------------------------------------
\* TextClassifier
\* ------------------------------------------------------------------------
\* should_skip_text without the word count: every ASCII-only text is
\* skipped
should_skip_text_ascii(raw) ==
    LET text == strip(raw) IN
    \/ Len(text) = 0
    \/ FullMatch(ReNumber, text)
    \/ PrefixMatch(ReUrl, text)
    \/ ~ \E i \in 1..Len(text) : isalpha(text[i])
    \/ FullMatch(ReAscii, text)
    \/ startswith(text, "/")

should_skip_text(raw) ==
    LET text == strip(raw) IN
    \/ Len(text) = 0
    \/ FullMatch(ReNumber, text)
    \/ \E i \in 1..Len(date_patterns) : FullMatch(date_patterns[i], text)
    \/ FullMatch(ReTime, text)
    \/ PrefixMatch(ReUrl, text)
    \/ FullMatch(ReEmail, text)
    \/ (FullMatch(RePhone, text) /\ DigitCount(text) >= 7)
    \/ ~ \E i \in 1..Len(text) : isalpha(text[i])
    \/ FullMatch(ReCurrencyPrefix, text)
    \/ FullMatch(ReCurrencySuffix, text)
    \/ (FullMatch(ReAscii, text) /\
            (\/ WordCount(text) <= 2
             \/ FullMatch(ReCamel, text)
             \/ FullMatch(ReSnake, text)))
    \/ PrefixMatch(ReDrive, text)
    \/ startswith(text, "/")

\* v is cell.value
is_translatable_cell(v) ==
    /\ v # None
    /\ IsStr(v)
    /\ Len(strip(v.s)) > 0
    /\ ~ startswith(v.s, "=")
    /\ ~ should_skip_text(v.s)

\* ------------------------------------------------------------------------
\* The source document and the identifiers of the one job
\* ------------------------------------------------------------------------
\* event["jobId"], a str: the characters of the id
JobId == <<"j", "1">>

\* wb.worksheets / sheet.iter_rows(): the cells in scan order
Layout ==
    [i \in 1..NumCells |->
        [sheet |-> IF i <= 2 THEN "Sheet1" ELSE "Sheet2",
         coord |-> IF i % 2 = 1 THEN "A1" ELSE "B1"]]

TextA == <<"KANA">>
TextB == <<"NEN">>
TextC == <<"NICHI", "KANA">>
\* cell values of the documents: three translatable texts, a number held
\* as text, a numeric cell and an empty cell
CellValues == {Str(TextA), Str(TextB), Str(TextC), Str(<<"4", "2">>), Num, None}
\* cell values of the documents run through the whole pipeline
PipelineValues == {Str(TextA), Str(TextB), Str(TextC), Str(<<"4", "2">>)}

Documents(values) == [1..NumCells -> values]

\* the documents run through the whole pipeline, up to a renaming of the
\* translatable texts: the first TextB comes after a TextA and the first
\* TextC after a TextB
PipelineDocuments ==
    {d \in Documents(PipelineValues) :
        \A i \in 1..NumCells :
            /\ d[i] = Str(TextB) => \E j \in 1..(i - 1) : d[j] = Str(TextA)
            /\ d[i] = Str(TextC) => \E j \in 1..(i - 1) : d[j] = Str(TextB)}

\* ------------------------------------------------------------------------
\* Blob store keys
\* ------------------------------------------------------------------------
WorkKey(job_id, name, id) ==
    [prefix |-> "excel-work", job |-> job_id, name |-> name, id |-> id]
\* f"{work_prefix}/batch_{batch_id}.json"
BatchKey(job_id, batch_id) == WorkKey(job_id, "batch", batch_id)
\* f"{work_prefix}/translation_{batch_id}.json"
TranslationKey(job_id, batch_id) == WorkKey(job_id, "translation", batch_id)
\* f"{work_prefix}/work_data.json"
WorkDataKey(job_id) == WorkKey(job_id, "work_data", 0)
\* event["s3Key"]: the uploaded source document
SourceKey == [prefix |-> "uploads", job |-> <<>>, name |-> "file.xlsx", id |-> 0]
\* f"translated/{uuid.uuid4()}/{output_filename}"
OutputKey(uuid) ==
    [prefix |-> "translated", job |-> <<>>, name |-> "file_translated.xlsx",
     id |-> uuid]

\* str(n) of a batch id or counter n >= 0
RECURSIVE Decimal(_)
Decimal(n) ==
    LET digit == <<"0", "1", "2", "3", "4", "5", "6", "7", "8", "9">>[(n % 10) + 1]
    IN IF n < 10 THEN <<digit>> ELSE Append(Decimal(n \div 10), digit)

\* KeyString that leaves the batch id out of the file name
KeyStringNoBatch(k) ==
    CASE k.prefix = "excel-work" ->
            <<"excel-work", "/">> \o k.job \o <<"/", k.name, ".json">>
      [] k.prefix = "translated" ->
            <<"translated", "/", "uuid">> \o Decimal(k.id) \o <<"/", k.name>>
      [] OTHER -> <<k.prefix, "/", k.name>>

\* The key string that a key of the model stands for, as the f-strings
\* build it: the characters of the job id and of the number one by one,
\* the fixed parts as one element each
KeyString(k) ==
    CASE k.prefix = "excel-work" ->
            <<"excel-work", "/">> \o k.job \o <<"/", k.name>> \o
            (IF k.name = "work_data" THEN <<>> ELSE <<"_">> \o Decimal(k.id)) \o
            <<".json">>
      [] k.prefix = "translated" ->
            <<"translated", "/", "uuid">> \o Decimal(k.id) \o <<"/", k.name>>
      [] OTHER -> <<k.prefix, "/", k.name>>

\* WorkPrefix without the closing slash
WorkPrefixOpen(job_id) == <<"excel-work", "/">> \o job_id
\* merge_handler line 102: f"excel-work/{job_id}/"
WorkPrefix(job_id) == <<"excel-work", "/">> \o job_id \o <<"/">>

\* str.startswith, and the Prefix parameter of list_objects_v2
StartsWith(str, prefix) ==
    Len(prefix) <= Len(str) /\ SubSeq(str, 1, Len(prefix)) = prefix

\* s3_client.put_object
Put(store, key, body) ==
    [k \in DOMAIN store \cup {key} |-> IF k = key THEN body ELSE store[k]]

\* ------------------------------------------------------------------------
\* Job record (DynamoDB item)
\* ------------------------------------------------------------------------
\* attribute not present in the item
Absent == -1
NoProgress ==
    [phase |-> "none", percent |-> Absent, completedBatches |-> Absent,
     totalBatches |-> Absent]

\* **kwargs: a sequence of [key, value]
NoKwargs == <<>>
Kw(key, value) == [key |-> key, value |-> value]
HasKw(kwargs, a) == \E i \in 1..Len(kwargs) : kwargs[i].key = a
GetKw(kwargs, a) == kwargs[CHOOSE i \in 1..Len(kwargs) : kwargs[i].key = a].value

\* update_job_status: SET #status = :status, <key> = :<key> ...; a failed
\* update_item is logged and swallowed
update_job_status(item, status, kwargs, ok) ==
    IF ok
    THEN [a \in DOMAIN item |->
            IF a = "status" THEN status
            ELSE IF HasKw(kwargs, a) THEN GetKw(kwargs, a)
            ELSE item[a]]
    ELSE item

\* ------------------------------------------------------------------------
\* State
\* ------------------------------------------------------------------------
VARIABLES
    s3,       \* blob store: key -> body
    job,      \* the job record
    prep,     \* the Prepare invocation
    units,    \* the Map units, by batchId
    merge,    \* the Merge invocation
    sfn,      \* the state machine that sequences the three stages
    faults,   \* the number of failed calls so far
    client    \* one invocation of a function on its own: the
              \* TranslationClient, the classifier, the response parser
              \* or update_batch_progress

vars == <<s3, job, prep, units, merge, sfn, faults, client>>

\* a call of an external service fails / no call fails in this step
Fault == faults < MaxFaults /\ faults' = faults + 1
NoFault == faults' = faults
\* a call that succeeds when ok and fails otherwise
Call(ok) == IF ok THEN NoFault ELSE Fault

\* most batches a document can give
MaxBatches == (NumCells + BATCH_SIZE - 1) \div BATCH_SIZE
BatchIds == 0..(MaxBatches - 1)

\* no invocation of the TranslationClient on its own
IdleClient ==
    [pc |-> "idle", op |-> "none", replies |-> <<>>, calls |-> 0, waited |-> 0,
     raised |-> FALSE]

IdlePrep ==
    [pc |-> "idle", cells |-> <<>>, texts |-> <<>>, batches |-> <<>>,
     total |-> 0, i |-> 0, err |-> "none"]

\* ------------------------------------------------------------------------
\* Prepare (prepare_handler.lambda_handler)
\* ------------------------------------------------------------------------
\* all_cells_info: one CellRef per translatable cell, in scan order
RECURSIVE ScanCells(_, _)
ScanCells(d, i) ==
    IF i > NumCells THEN <<>>
    ELSE (IF is_translatable_cell(d[i])
          THEN <<[sheet |-> Layout[i].sheet, coord |-> Layout[i].coord,
                  text |-> d[i].s]>>
          ELSE <<>>) \o ScanCells(d, i + 1)

\* unique_texts: the set built by unique_texts.add(text)
UniqueTexts(cells) == {cells[k].text : k \in 1..Len(cells)}

\* list(unique_texts): a set of str iterates in hash order, which differs
\* from process to process; any order of the elements can come out
ListOfSet(S) ==
    {l \in [1..Cardinality(S) -> S] : \A a, b \in 1..Cardinality(S) : l[a] = l[b] => a = b}

\* BatchSlice with a slice that runs one element into the next batch
BatchSliceOverlap(l, i) == SubSeq(l, i + 1, Min(i + BATCH_SIZE + 1, Len(l)))

\* unique_texts_list[i:i + BATCH_SIZE]
BatchSlice(l, i) == SubSeq(l, i + 1, Min(i + BATCH_SIZE, Len(l)))

\* Descriptor with the configured batch size as textCount
DescriptorFullCount(job_id, batch_id, batch_texts) ==
    [batchId |-> batch_id, batchKey |-> BatchKey(job_id, batch_id),
     textCount |-> BATCH_SIZE]

\* the batch descriptor appended to batches
Descriptor(job_id, batch_id, batch_texts) ==
    [batchId |-> batch_id, batchKey |-> BatchKey(job_id, batch_id),
     textCount |-> Len(batch_texts)]

\* lines 210-217: the invocation starts and sets PREPARING
PrepareStart ==
    /\ sfn.stage = "idle"
    /\ \E ok \in BOOLEAN :
        /\ Call(ok)
        /\ job' = update_job_status(job, "PREPARING", NoKwargs, ok)
    /\ prep' = [IdlePrep EXCEPT !.pc = "download"]
    /\ sfn' = [sfn EXCEPT !.stage = "prepare", !.n = sfn.n + 1]
    /\ UNCHANGED <<s3, units, merge, client>>

\* DocumentUnreadable with the exception caught and logged: the handler
\* goes on with no cells
DocumentUnreadableLogged(p) == [p EXCEPT !.pc = "batches", !.err = "DocumentReadError"]

\* lines 231-239: download_file or load_workbook raises and nothing
\* catches it
DocumentUnreadable(p) == [p EXCEPT !.pc = "raised", !.err = "DocumentReadError"]

\* lines 219-260: download_file, load_workbook, the scan and the dedup
PrepareScan ==
    /\ prep.pc = "download"
    /\ \/ /\ SourceKey \in DOMAIN s3
          /\ LET cells == ScanCells(s3[SourceKey], 1) IN
             \E l \in ListOfSet(UniqueTexts(cells)) :
                prep' = [prep EXCEPT !.pc = "batches", !.cells = cells,
                                     !.texts = l, !.total = NumCells]
          /\ NoFault
       \/ /\ prep' = DocumentUnreadable(prep)
          /\ Fault
    /\ UNCHANGED <<s3, job, units, merge, sfn, client>>

\* ArtifactWriteFailed with the exception caught and logged: the handler
\* goes on to its last step
ArtifactWriteFailedLogged(p) == [p EXCEPT !.pc = "finish", !.err = "ArtifactStorageError"]

\* lines 268-273 and 295-300: put_object raises and nothing catches it
ArtifactWriteFailed(p) == [p EXCEPT !.pc = "raised", !.err = "ArtifactStorageError"]

\* PrepareWriteBatch as a loop that runs its body once before it tests the
\* bound: a document without a unique text gets a batch of no texts
PrepareWriteBatchAtLeastOnce ==
    /\ prep.pc = "batches"
    /\ (prep.i < Len(prep.texts) \/ (prep.i = 0 /\ Len(prep.batches) = 0))
    /\ LET batch_texts == BatchSlice(prep.texts, prep.i)
           batch_id == prep.i \div BATCH_SIZE
       IN \/ /\ s3' = Put(s3, BatchKey(JobId, batch_id), [texts |-> batch_texts])
             /\ prep' = [prep EXCEPT
                    !.batches = Append(@, Descriptor(JobId, batch_id, batch_texts)),
                    !.i = prep.i + BATCH_SIZE]
             /\ NoFault
          \/ /\ prep' = ArtifactWriteFailed(prep)
             /\ Fault
             /\ UNCHANGED s3
    /\ UNCHANGED <<job, units, merge, sfn, client>>

\* lines 266-283: one iteration of the batch loop
PrepareWriteBatch ==
    /\ prep.pc = "batches"
    /\ prep.i < Len(prep.texts)
    /\ LET batch_texts == BatchSlice(prep.texts, prep.i)
           batch_id == prep.i \div BATCH_SIZE
       IN \/ /\ s3' = Put(s3, BatchKey(JobId, batch_id), [texts |-> batch_texts])
             /\ prep' = [prep EXCEPT
                    !.batches = Append(@, Descriptor(JobId, batch_id, batch_texts)),
                    !.i = prep.i + BATCH_SIZE]
             /\ NoFault
          \/ /\ prep' = ArtifactWriteFailed(prep)
             /\ Fault
             /\ UNCHANGED s3
    /\ UNCHANGED <<job, units, merge, sfn, client>>

\* lines 285-300: the work data
WorkData(p) ==
    [cells |-> p.cells, totalCells |-> p.total, uniqueTexts |-> Len(p.texts),
     batchCount |-> Len(p.batches)]

PrepareWriteWorkData ==
    /\ prep.pc = "batches"
    /\ prep.i >= Len(prep.texts)
    /\ \/ /\ s3' = Put(s3, WorkDataKey(JobId), WorkData(prep))
          /\ prep' = [prep EXCEPT !.pc = "finish"]
          /\ NoFault
       \/ /\ prep' = ArtifactWriteFailed(prep)
          /\ Fault
          /\ UNCHANGED s3
    /\ UNCHANGED <<job, units, merge, sfn, client>>

\* lines 315-324: the progress snapshot written with TRANSLATING
PreparedProgress ==
    [phase |-> "prepared", percent |-> 5, completedBatches |-> Absent,
     totalBatches |-> Absent]

\* lines 308-338: TRANSLATING and the return value
PrepareFinish ==
    /\ prep.pc = "finish"
    /\ \E ok \in BOOLEAN :
        /\ Call(ok)
        /\ job' = update_job_status(job, "TRANSLATING",
                                 <<Kw("progress", PreparedProgress)>>, ok)
    /\ prep' = [prep EXCEPT !.pc = "returned"]
    /\ UNCHANGED <<s3, units, merge, sfn, client>>

\* ------------------------------------------------------------------------
\* TranslationClient (translate_batch_handler.py)
\* ------------------------------------------------------------------------
\* max_retries of translate_texts_batch and of translate_single_text
BatchMaxRetries == 5
SingleMaxRetries == 3

PyInt(n) == [t |-> "int", n |-> n]
\* a key that an object of the response does not have
Missing == [t |-> "missing"]
\* dict.get(key, default)
dict_get(v, default) == IF v = Missing THEN default ELSE v

EmptyDict == <<>>
HasKey(d, k) == k \in DOMAIN d

\* One reply of bedrock_client.converse:
\*   kind "ok"        a response whose text is body
\*   kind "throttle"  ClientError with code ThrottlingException
\*   kind "error"     ClientError with any other code
\*   kind "exception" any other exception (connection, response shape)
\* The body of a batch reply is [shape, entries]:
\*   shape "array"  json.loads gives a list of objects, the entries
\*   shape "other"  json.loads gives some other JSON value
\*   shape "lines"  json.loads raises JSONDecodeError; every entry is one
\*                  line holding the id and translation markers, wf says
\*                  whether json.loads(line.rstrip(",")) gives an object
\* One line of a response that is scanned line by line is [kind, wf, id,
\* translation]:
\*   kind "fragment"  the line is one object with the two members, with or
\*                    without a trailing comma
\*   kind "embedded"  the line holds such an object next to other text:
\*                    commentary, an array bracket or a second object
\*   kind "malformed" the line holds both markers but no object
\*   kind "noise"     the line holds not both markers (commentary)
\*   kind "fence"     the line is a code-fence marker
\* wf is whether json.loads(line.rstrip(",")) gives an object: json.loads
\* accepts one JSON value that spans the whole text and nothing else
Line(kind, id, translation) ==
    [kind |-> kind, wf |-> kind = "fragment", id |-> id, translation |-> translation]
Entry(wf, id, translation) ==
    Line(IF wf THEN "fragment" ELSE "malformed", id, translation)
OkReply(body) == [kind |-> "ok", body |-> body]
FailReply(kind) == [kind |-> kind, body |-> <<>>]

\* lines 83-86 and 95-98: one parsed item
ApplyItem(translations, texts, item) ==
    LET idx == dict_get(item.id, None)
        translated == dict_get(item.translation, Str(<<>>))
    IN IF idx # None /\ 0 <= idx.n /\ idx.n < Len(texts)
       THEN Put(translations, texts[idx.n + 1], translated)
       ELSE translations

\* lines 81-86: for item in parsed
RECURSIVE ParseArray(_, _, _)
ParseArray(entries, texts, translations) ==
    IF Len(entries) = 0 THEN translations
    ELSE ParseArray(Tail(entries), texts,
                    ApplyItem(translations, texts, Head(entries)))

\* lines 74-78: a response that starts with a code fence is cut down to
\* result.split(FENCE)[1], the text between the first fence and the next
\* one (or the end)
StripFence(lines) ==
    IF Len(lines) > 0 /\ lines[1].kind = "fence"
    THEN LET rest == Tail(lines)
             closing == {i \in 1..Len(rest) : rest[i].kind = "fence"}
             last == IF closing = {} THEN Len(rest)
                     ELSE (CHOOSE i \in closing : \A j \in closing : i <= j) - 1
         IN SubSeq(rest, 1, last)
    ELSE lines

\* lines 90-100: for line in result.split("\n")
RECURSIVE ParseLines(_, _, _)
ParseLines(entries, texts, translations) ==
    IF Len(entries) = 0 THEN translations
    ELSE ParseLines(Tail(entries), texts,
                    IF Head(entries).wf
                    THEN ApplyItem(translations, texts, Head(entries))
                    ELSE translations)

\* Retryable for every ClientError, whatever its code
RetryableAnyError(reply, attempt, max_retries) ==
    reply.kind \in {"throttle", "error"} /\ attempt < max_retries - 1

\* lines 106-107 and 202: the failure is a ThrottlingException and this is
\* not the last attempt
Retryable(reply, attempt, max_retries) ==
    reply.kind = "throttle" /\ attempt < max_retries - 1

\* Backoff that grows linearly with the attempt
BackoffLinear(attempt) == 2 * (attempt + 1)

\* lines 108 and 203: 2 ** (attempt + 1) seconds, without the jitter
Backoff(attempt) == 2 ^ (attempt + 1)

BatchOutcome(raised, translations, calls, waited) ==
    [raised |-> raised, translations |-> translations, calls |-> calls,
     waited |-> waited]

\* lines 64-118: the attempt loop; replies[attempt + 1] is what the
\* service answers to the call of that attempt, waited is the backoff slept
\* so far without the jitter
RECURSIVE BatchAttempt(_, _, _, _)
BatchAttempt(texts, replies, attempt, waited) ==
    IF attempt >= BatchMaxRetries
    THEN BatchOutcome(FALSE, EmptyDict, attempt, waited)
    ELSE LET reply == replies[attempt + 1] IN
         CASE reply.kind = "ok" ->
                IF reply.body.shape = "array"
                THEN BatchOutcome(FALSE,
                        ParseArray(reply.body.entries, texts, EmptyDict),
                        attempt + 1, waited)
                ELSE IF reply.body.shape = "lines"
                THEN BatchOutcome(FALSE,
                        ParseLines(StripFence(reply.body.entries), texts, EmptyDict),
                        attempt + 1, waited)
                ELSE BatchOutcome(TRUE, EmptyDict, attempt + 1, waited)
           [] Retryable(reply, attempt, BatchMaxRetries) ->
                BatchAttempt(texts, replies, attempt + 1, waited + Backoff(attempt))
           [] OTHER -> BatchOutcome(TRUE, EmptyDict, attempt + 1, waited)

\* translate_texts_batch(texts, source_lang, target_lang)
translate_texts_batch(texts, replies) ==
    IF Len(texts) = 0 THEN BatchOutcome(FALSE, EmptyDict, 0, 0)
    ELSE BatchAttempt(texts, replies, 0, 0)

SingleOutcome(value, calls, waited) ==
    [value |-> value, calls |-> calls, waited |-> waited]

\* lines 193-209: the attempt loop of translate_single_text; the body of
\* an ok reply is the response text
RECURSIVE SingleAttempt(_, _, _, _)
SingleAttempt(text, replies, attempt, waited) ==
    IF attempt >= SingleMaxRetries THEN SingleOutcome(Str(text), attempt, waited)
    ELSE LET reply == replies[attempt + 1] IN
         CASE reply.kind = "ok" ->
                SingleOutcome(Str(strip(reply.body)), attempt + 1, waited)
           [] Retryable(reply, attempt, SingleMaxRetries) ->
                SingleAttempt(text, replies, attempt + 1, waited + Backoff(attempt))
           [] OTHER -> SingleOutcome(Str(text), attempt + 1, waited)

\* translate_single_text(text, source_lang, target_lang)
translate_single_text(text, replies) ==
    IF Len(text) = 0 \/ Len(strip(text)) = 0 THEN SingleOutcome(Str(text), 0, 0)
    ELSE SingleAttempt(text, replies, 0, 0)

\* line 258: missing = [t for t in texts if t not in translations]
MissingTexts(texts, translations) ==
    SelectSeq(texts, LAMBDA t : ~ HasKey(translations, t))

\* lines 261-263: the fallback loop; single[t] is the replies given to the
\* calls made for t
RECURSIVE FillMissing(_, _, _)
FillMissing(missing, translations, single) ==
    IF Len(missing) = 0 THEN translations
    ELSE FillMissing(Tail(missing),
                     Put(translations, Head(missing),
                         translate_single_text(Head(missing),
                                               single[Head(missing)]).value),
                     single)

\* ------------------------------------------------------------------------
\* What the inference service answers in the pipeline
\* ------------------------------------------------------------------------
\* the translation the service gives when it gives one
Translated == <<"t", "r">>

\* the translation member of the object that answers one text: a string,
\* an empty string, null, no translation member, or no object at all
NoObject == [t |-> "noobject"]
MemberChoices == {Str(Translated), None, Missing, NoObject}

\* the array that answers texts when the answer for texts[i] is choice[i]
RECURSIVE EntriesOf(_, _)
EntriesOf(choice, i) ==
    IF i > Len(choice) THEN <<>>
    ELSE (IF choice[i] = NoObject THEN <<>>
          ELSE <<Entry(TRUE, PyInt(i - 1), choice[i])>>) \o EntriesOf(choice, i + 1)

Throttled(n) == [i \in 1..n |-> FailReply("throttle")]

\* replies to the calls of translate_texts_batch: an answer at once, an
\* answer after one throttled call, throttling on every attempt, a
\* non-retryable error, a response that is not an array of objects
PipelineBatchReplies(texts) ==
    {<<OkReply([shape |-> "array", entries |-> EntriesOf(c, 1)])>> :
        c \in [1..Len(texts) -> MemberChoices]}
    \cup {<<FailReply("throttle"),
            OkReply([shape |-> "array",
                     entries |-> EntriesOf([i \in 1..Len(texts) |-> Str(Translated)], 1)])>>,
          Throttled(BatchMaxRetries),
          <<FailReply("error")>>,
          <<OkReply([shape |-> "other", entries |-> <<>>])>>}

\* replies to the calls of translate_single_text: a translation, a blank
\* response, an error, throttling on every attempt
PipelineSingleReplies ==
    {<<OkReply(<<" ">> \o Translated)>>, <<OkReply(<<" ">>)>>,
     <<FailReply("error")>>, Throttled(SingleMaxRetries)}

\* ------------------------------------------------------------------------
\* ProgressTracker (update_batch_progress)
\* ------------------------------------------------------------------------
\* if_not_exists(completedBatches, :zero)
if_not_exists(v, zero) == IF v = Absent THEN zero ELSE v

\* IncrementCompleted with SET completedBatches = :zero + :inc
IncrementCompletedReset(item) == [item EXCEPT !.completedBatches = 0 + 1]

\* lines 131-142: SET completedBatches = if_not_exists(...) + :inc, with
\* ReturnValues UPDATED_NEW
IncrementCompleted(item) ==
    [item EXCEPT !.completedBatches = if_not_exists(@, 0) + 1]

\* line 145: 5 + int((completed / total_batches) * 85), for total_batches > 0
ProgressPercent(completed, total_batches) ==
    5 + ((completed * 85) \div total_batches)

\* lines 148-153
TranslatingProgress(completed, total_batches) ==
    [phase |-> "translating", percent |-> ProgressPercent(completed, total_batches),
     completedBatches |-> completed, totalBatches |-> total_batches]

\* ProgressUpdate that also marks the job COMPLETED when the count reaches
\* the total
ProgressUpdateCompletes(item, completed, total_batches) ==
    [item EXCEPT !.progress = TranslatingProgress(completed, total_batches),
                 !.status = IF completed >= total_batches THEN "COMPLETED" ELSE @]

\* lines 170-177: SET progress = :progress and nothing else
ProgressUpdate(item, completed, total_batches) ==
    [item EXCEPT !.progress = TranslatingProgress(completed, total_batches)]

\* ------------------------------------------------------------------------
\* Map unit (translate_batch_handler.lambda_handler), one per batchId
\* ------------------------------------------------------------------------
\* total is the totalBatches of the event the unit was invoked with
IdleUnit ==
    [pc |-> "idle", completed |-> Absent, err |-> "none", runs |-> 0, total |-> 0]

Raise(u, err) == [u EXCEPT !.pc = "raised", !.err = err]

\* translate_batch_handler lines 101-116: what translate_texts_batch raises
\* after the reply of its last call: the ClientError of a throttled last
\* attempt, the ClientError of any other code, or the exception of a
\* response that cannot be used
BatchError(reply) ==
    CASE reply.kind = "throttle" -> "ThrottlingException"
      [] reply.kind = "error" -> "ClientError"
      [] OTHER -> "ResponseError"

\* lines 247-276: load the batch, translate it, fill the missing texts one
\* by one and store the TranslationMap
MapTranslate(b) ==
    /\ units[b].pc = "start"
    /\ \/ \* get_object of the batch fails
          /\ units' = [units EXCEPT ![b] = Raise(@, "ArtifactStorageError")]
          /\ Fault
          /\ UNCHANGED s3
       \/ /\ BatchKey(JobId, b) \in DOMAIN s3
          /\ LET texts == s3[BatchKey(JobId, b)].texts IN
             \E replies \in PipelineBatchReplies(texts) :
               LET out == translate_texts_batch(texts, replies) IN
               IF out.raised
               THEN /\ units' = [units EXCEPT ![b] =
                                        Raise(@, BatchError(replies[out.calls]))]
                    /\ Fault
                    /\ UNCHANGED s3
               ELSE LET missing == MissingTexts(texts, out.translations) IN
                    \E single \in [{missing[i] : i \in 1..Len(missing)} ->
                                        PipelineSingleReplies] :
                      LET translations == FillMissing(missing, out.translations, single)
                          failed == {t \in DOMAIN single : single[t][1].kind # "ok"}
                      IN /\ faults + Cardinality(failed) <= MaxFaults
                         /\ \/ /\ s3' = Put(s3, TranslationKey(JobId, b),
                                            [translations |-> translations])
                               /\ units' = [units EXCEPT ![b].pc = "stored"]
                               /\ faults' = faults + Cardinality(failed)
                            \/ \* put_object of the TranslationMap fails
                               /\ units' = [units EXCEPT ![b] =
                                               Raise(@, "ArtifactStorageError")]
                               /\ faults + Cardinality(failed) < MaxFaults
                               /\ faults' = faults + Cardinality(failed) + 1
                               /\ UNCHANGED s3
    /\ UNCHANGED <<job, prep, merge, sfn, client>>

\* ProgressFailed with the exception left to escape update_batch_progress
ProgressFailedRaises(u) == Raise(u, "ProgressError")

\* lines 181-182: any exception inside update_batch_progress is logged and
\* the function returns; lambda_handler goes on to its return statement
ProgressFailed(u) == [u EXCEPT !.pc = "returned"]

\* MapIncrement placed before the translation: the unit counts itself as
\* soon as it starts
MapIncrementEarly(b) ==
    /\ units[b].pc = "start"
    /\ units[b].completed = Absent
    /\ job' = IncrementCompleted(job)
    /\ units' = [units EXCEPT ![b].completed = job'.completedBatches]
    /\ NoFault
    /\ UNCHANGED <<s3, prep, merge, sfn, client>>

\* lines 129-145: the atomic increment; an exception of update_item or of
\* the percent computation (total_batches = 0) ends update_batch_progress
MapIncrement(b) ==
    /\ units[b].pc = "stored"
    /\ \/ /\ job' = IncrementCompleted(job)
          /\ units' = [units EXCEPT ![b] =
                IF @.total = 0
                THEN ProgressFailed([@ EXCEPT !.completed = job'.completedBatches])
                ELSE [@ EXCEPT !.completed = job'.completedBatches,
                               !.pc = "counted"]]
          /\ NoFault
       \/ /\ units' = [units EXCEPT ![b] = ProgressFailed(@)]
          /\ Fault
          /\ UNCHANGED job
    /\ UNCHANGED <<s3, prep, merge, sfn, client>>

\* lines 147-182: SET progress = :progress
MapProgress(b) ==
    /\ units[b].pc = "counted"
    /\ \/ /\ job' = ProgressUpdate(job, units[b].completed, units[b].total)
          /\ units' = [units EXCEPT ![b].pc = "returned"]
          /\ NoFault
       \/ /\ units' = [units EXCEPT ![b] = ProgressFailed(@)]
          /\ UNCHANGED job
          /\ Fault
    /\ UNCHANGED <<s3, prep, merge, sfn, client>>

\* lines 281-286: the value a Map unit returns
BatchResult(b, store) ==
    [batchId |-> b, translationKey |-> TranslationKey(JobId, b),
     translatedCount |-> Cardinality(DOMAIN store[TranslationKey(JobId, b)].translations),
     success |-> TRUE]

\* ------------------------------------------------------------------------
\* Merge (merge_handler.lambda_handler)
\* ------------------------------------------------------------------------
\* single_calls: the texts Merge has passed to translate_single_text;
\* finalized: the update_item that sets COMPLETED succeeded
IdleMerge ==
    [pc |-> "idle", results |-> <<>>, all_translations |-> <<>>, wb |-> <<>>,
     translated_count |-> 0, single_calls |-> {}, output_key |-> SourceKey,
     finalized |-> FALSE, err |-> "none"]

\* lines 147-154
MergingProgress ==
    [phase |-> "merging", percent |-> 90, completedBatches |-> Absent,
     totalBatches |-> Absent]

\* dict.update
DictUpdate(d, e) ==
    [k \in DOMAIN d \cup DOMAIN e |-> IF k \in DOMAIN e THEN e[k] ELSE d[k]]

\* LoadTranslations without the try/except around get_object
RECURSIVE LoadTranslationsNoCatch(_, _, _, _)
LoadTranslationsNoCatch(results, loads, store, loaded) ==
    IF Len(results) = 0 THEN loaded
    ELSE LET result == Head(results) IN
         LoadTranslationsNoCatch(Tail(results), Tail(loads), store,
            IF ~ result.success THEN loaded
            ELSE IF Head(loads) /\ result.translationKey \in DOMAIN store
            THEN [loaded EXCEPT !.all_translations =
                    DictUpdate(@, store[result.translationKey].translations)]
            ELSE [loaded EXCEPT !.raised = TRUE])

\* lines 164-173: the union of the TranslationMaps of the successful
\* results; loads[i] says whether get_object for results[i] succeeds. A
\* failed get_object is logged and the loop goes on: nothing is raised.
RECURSIVE LoadTranslations(_, _, _, _)
LoadTranslations(results, loads, store, loaded) ==
    IF Len(results) = 0 THEN loaded
    ELSE LET result == Head(results) IN
         LoadTranslations(Tail(results), Tail(loads), store,
            IF result.success /\ Head(loads) /\ result.translationKey \in DOMAIN store
            THEN [loaded EXCEPT !.all_translations =
                    DictUpdate(@, store[result.translationKey].translations)]
            ELSE loaded)

NothingLoaded == [all_translations |-> EmptyDict, raised |-> FALSE]

\* CellIndex by the coordinate alone, on the first sheet that has it
CellIndexFirstSheet(sheet_name, coord) ==
    CHOOSE i \in 1..NumCells :
        /\ Layout[i].coord = coord
        /\ \A j \in 1..(i - 1) : Layout[j].coord # coord

\* wb[sheet_name][coord]
CellIndex(sheet_name, coord) ==
    CHOOSE i \in 1..NumCells : Layout[i].sheet = sheet_name /\ Layout[i].coord = coord

\* ApplyTranslations with all_translations.pop(original_text) as the lookup:
\* a translation is used for the first cell that holds the text only
RECURSIVE ApplyTranslationsOnce(_, _, _)
ApplyTranslationsOnce(cells, all_translations, m) ==
    IF Len(cells) = 0 THEN m
    ELSE LET cell_info == Head(cells)
             original_text == cell_info.text
         IN IF HasKey(all_translations, original_text)
            THEN ApplyTranslationsOnce(Tail(cells),
                    [k \in DOMAIN all_translations \ {original_text} |->
                        all_translations[k]],
                    [wb |-> [m.wb EXCEPT
                                ![CellIndex(cell_info.sheet, cell_info.coord)] =
                                    all_translations[original_text]],
                     translated_count |-> m.translated_count + 1])
            ELSE ApplyTranslationsOnce(Tail(cells), all_translations, m)

\* lines 199-210: the cell loop; m is [wb, translated_count]
RECURSIVE ApplyTranslations(_, _, _)
ApplyTranslations(cells, all_translations, m) ==
    IF Len(cells) = 0 THEN m
    ELSE LET cell_info == Head(cells)
             original_text == cell_info.text
         IN ApplyTranslations(Tail(cells), all_translations,
                IF HasKey(all_translations, original_text)
                THEN [wb |-> [m.wb EXCEPT
                                ![CellIndex(cell_info.sheet, cell_info.coord)] =
                                    all_translations[original_text]],
                      translated_count |-> m.translated_count + 1]
                ELSE m)

\* lines 139-154: the invocation starts and sets MERGING
MergeStart ==
    /\ merge.pc = "start"
    /\ \E ok \in BOOLEAN :
        /\ Call(ok)
        /\ job' = update_job_status(job, "MERGING",
                                 <<Kw("progress", MergingProgress)>>, ok)
    /\ merge' = [merge EXCEPT !.pc = "load"]
    /\ UNCHANGED <<s3, prep, units, sfn, client>>

\* lines 156-214: the work data, the TranslationMaps, the source
\* document, the cell loop and wb.save
MergeApply ==
    /\ merge.pc = "load"
    /\ \/ \* get_object of the work data, download_file or load_workbook,
          \* or wb.save fails
          /\ \E err \in {"ArtifactStorageError", "DocumentReadError",
                          "DocumentWriteError"} :
                merge' = [merge EXCEPT !.pc = "raised", !.err = err]
          /\ Fault
       \/ /\ WorkDataKey(JobId) \in DOMAIN s3
          /\ SourceKey \in DOMAIN s3
          /\ \E loads \in [1..Len(merge.results) -> BOOLEAN] :
               LET failed == {i \in 1..Len(merge.results) : ~ loads[i]}
                   skipped == {i \in 1..Len(merge.results) :
                                    ~ merge.results[i].success}
                   cells == s3[WorkDataKey(JobId)].cells
                   loaded == LoadTranslations(merge.results, loads, s3, NothingLoaded)
                   m == ApplyTranslations(cells, loaded.all_translations,
                            [wb |-> s3[SourceKey], translated_count |-> 0])
               IN /\ failed \cap skipped = {}
                  /\ faults + Cardinality(failed) <= MaxFaults
                  /\ faults' = faults + Cardinality(failed)
                  /\ merge' =
                        IF loaded.raised
                        THEN [merge EXCEPT !.pc = "raised",
                                           !.err = "TranslationMapError"]
                        ELSE [merge EXCEPT !.pc = "upload", !.wb = m.wb,
                                !.all_translations = loaded.all_translations,
                                !.translated_count = m.translated_count]
    /\ UNCHANGED <<s3, job, prep, units, sfn, client>>

\* MergeUpload that goes on to COMPLETED although nothing was uploaded
MergeUploadLost ==
    /\ merge.pc = "upload"
    /\ merge' = [merge EXCEPT !.pc = "cleanup", !.output_key = OutputKey(sfn.n)]
    /\ NoFault
    /\ UNCHANGED <<s3, job, prep, units, sfn, client>>

\* lines 216-229: upload_file under a fresh uuid
MergeUpload ==
    /\ merge.pc = "upload"
    /\ \/ /\ s3' = Put(s3, OutputKey(sfn.n), merge.wb)
          /\ merge' = [merge EXCEPT !.pc = "cleanup", !.output_key = OutputKey(sfn.n)]
          /\ NoFault
       \/ /\ merge' = [merge EXCEPT !.pc = "raised", !.err = "DocumentWriteError"]
          /\ Fault
          /\ UNCHANGED s3
    /\ UNCHANGED <<job, prep, units, sfn, client>>

\* the most keys one list_objects_v2 response holds (1000 in S3), scaled so
\* that the artifacts of two batches can exceed one response
MaxKeys == 4

\* the keys under excel-work/<job_id>/
WorkKeys(store, job_id) ==
    {k \in DOMAIN store : StartsWith(KeyString(k), WorkPrefix(job_id))}

\* the listing order of the keys: batch_<id>.json, translation_<id>.json,
\* work_data.json, each kind by id
KeyRank(k) ==
    (CASE k.name = "batch" -> 0
       [] k.name = "translation" -> 1
       [] OTHER -> 2) * (NumCells + 1) + k.id

\* line 103: response["Contents"] of the one list_objects_v2 call, which
\* holds the first MaxKeys keys of the prefix
ListedKeys(store, job_id) ==
    {k \in WorkKeys(store, job_id) :
        Cardinality({x \in WorkKeys(store, job_id) : KeyRank(x) < KeyRank(k)})
            < MaxKeys}

\* cleanup_work_data: list the keys under excel-work/<job_id>/ once and
\* delete the listed keys; an exception of either call is logged and
\* swallowed
cleanup_work_data(store, job_id, ok) ==
    IF ok
    THEN [k \in DOMAIN store \ ListedKeys(store, job_id) |-> store[k]]
    ELSE store

\* lines 231-237
MergeCleanup ==
    /\ merge.pc = "cleanup"
    /\ \E ok \in BOOLEAN :
        /\ Call(ok)
        /\ s3' = cleanup_work_data(s3, JobId, ok)
    /\ merge' = [merge EXCEPT !.pc = "finish"]
    /\ UNCHANGED <<job, prep, units, sfn, client>>

\* FinalStats with the number of unique texts as translatedCells
FinalStatsUnique(stats, translated_count) ==
    [totalCells |-> stats.totalCells,
     translatableCells |-> stats.translatableCells,
     uniqueTexts |-> stats.uniqueTexts,
     batchCount |-> stats.batchCount,
     translatedCells |-> stats.uniqueTexts,
     sheetsProcessed |-> Cardinality({Layout[i].sheet : i \in 1..NumCells})]

\* lines 239-241: the stats of the event with the two final counts
FinalStats(stats, translated_count) ==
    [totalCells |-> stats.totalCells,
     translatableCells |-> stats.translatableCells,
     uniqueTexts |-> stats.uniqueTexts,
     batchCount |-> stats.batchCount,
     translatedCells |-> translated_count,
     sheetsProcessed |-> Cardinality({Layout[i].sheet : i \in 1..NumCells})]

\* lines 243-260: COMPLETED and the return value
MergeFinish ==
    /\ merge.pc = "finish"
    /\ \E ok \in BOOLEAN :
        /\ Call(ok)
        /\ job' = update_job_status(job, "COMPLETED",
                    <<Kw("outputS3Key", merge.output_key),
                      Kw("stats", FinalStats(sfn.stats, merge.translated_count))>>,
                    ok)
        /\ merge' = [merge EXCEPT !.pc = "returned", !.finalized = ok]
    /\ UNCHANGED <<s3, prep, units, sfn, client>>

\* ------------------------------------------------------------------------
\* The state machine that runs Prepare, fans out the Map units and runs
\* Merge behind the barrier
\* ------------------------------------------------------------------------
IdleSfn ==
    [stage |-> "idle", n |-> 0, total |-> 0, redispatched |-> 0,
     stats |-> [totalCells |-> 0, translatableCells |-> 0, uniqueTexts |-> 0,
                batchCount |-> 0]]

Dispatched == {b \in BatchIds : units[b].pc # "idle"}
Terminal(u) == u.pc \in {"returned", "raised"}

\* prepare_handler lines 308-313: stats of the return value
PrepareStats(p) ==
    [totalCells |-> p.total, translatableCells |-> Len(p.cells),
     uniqueTexts |-> Len(p.texts), batchCount |-> Len(p.batches)]

\* Prepare returned: one Map unit per batch descriptor
SfnDispatch ==
    /\ sfn.stage = "prepare"
    /\ prep.pc = "returned"
    /\ sfn' = [sfn EXCEPT !.stage = "map", !.total = Len(prep.batches),
                          !.stats = PrepareStats(prep)]
    /\ units' = [b \in BatchIds |->
                    IF \E i \in 1..Len(prep.batches) : prep.batches[i].batchId = b
                    THEN [IdleUnit EXCEPT !.pc = "start", !.runs = 1,
                                          !.total = Len(prep.batches)]
                    ELSE IdleUnit]
    /\ UNCHANGED <<s3, job, prep, merge, faults, client>>

\* a Map unit that ended is dispatched once more for the same batchId
SfnRedispatch(b) ==
    /\ sfn.stage = "map"
    /\ Terminal(units[b])
    /\ sfn.redispatched < MaxRedispatch
    /\ sfn' = [sfn EXCEPT !.redispatched = @ + 1]
    /\ units' = [units EXCEPT ![b] = [IdleUnit EXCEPT !.pc = "start",
                                                      !.runs = units[b].runs + 1,
                                                      !.total = units[b].total]]
    /\ UNCHANGED <<s3, job, prep, merge, faults, client>>

\* the BatchResult of a Map unit: what it returned, or success = false for a
\* unit that raised
ResultOf(b) ==
    IF units[b].pc = "returned" THEN BatchResult(b, s3)
    ELSE [batchId |-> b, translationKey |-> TranslationKey(JobId, b),
          translatedCount |-> 0, success |-> FALSE]

RECURSIVE ResultsFrom(_)
ResultsFrom(b) ==
    IF b \notin Dispatched THEN <<>> ELSE <<ResultOf(b)>> \o ResultsFrom(b + 1)

\* the barrier: every dispatched Map unit has a terminal outcome
SfnStartMerge ==
    /\ sfn.stage = "map"
    /\ \A b \in Dispatched : Terminal(units[b])
    /\ sfn' = [sfn EXCEPT !.stage = "merge"]
    /\ merge' = [IdleMerge EXCEPT !.pc = "start", !.results = ResultsFrom(0)]
    /\ UNCHANGED <<s3, job, prep, units, faults, client>>

\* Merge returned: the execution succeeds
SfnSucceed ==
    /\ sfn.stage = "merge"
    /\ merge.pc = "returned"
    /\ sfn' = [sfn EXCEPT !.stage = "succeeded"]
    /\ UNCHANGED <<s3, job, prep, units, merge, faults, client>>

\* Prepare raised: the job is marked FAILED with the error
SfnPrepareFailed ==
    /\ sfn.stage = "prepare"
    /\ prep.pc = "raised"
    /\ job' = [job EXCEPT !.status = "FAILED", !.error = prep.err]
    /\ sfn' = [sfn EXCEPT !.stage = "failed"]
    /\ UNCHANGED <<s3, prep, units, merge, faults, client>>

\* Merge raised: the job is marked FAILED with the error
SfnMergeFailed ==
    /\ sfn.stage = "merge"
    /\ merge.pc = "raised"
    /\ job' = [job EXCEPT !.status = "FAILED", !.error = merge.err]
    /\ sfn' = [sfn EXCEPT !.stage = "failed"]
    /\ UNCHANGED <<s3, prep, units, merge, faults, client>>

\* the state machine is started once more for the same job id
SfnRestart ==
    /\ sfn.stage \in {"succeeded", "failed"}
    /\ sfn.n < MaxExecutions
    /\ sfn' = [IdleSfn EXCEPT !.n = sfn.n]
    /\ prep' = IdlePrep
    /\ units' = [b \in BatchIds |-> IdleUnit]
    /\ merge' = IdleMerge
    /\ UNCHANGED <<s3, job, faults, client>>

\* ------------------------------------------------------------------------
\* Specification of one execution of the pipeline
\* ------------------------------------------------------------------------
\* the job record written at submission
SubmittedJob ==
    [status |-> "PENDING", progress |-> NoProgress, completedBatches |-> Absent,
     outputS3Key |-> SourceKey, stats |-> IdleSfn.stats, error |-> "none"]

Init ==
    /\ \E d \in PipelineDocuments : s3 = (SourceKey :> d)
    /\ job = SubmittedJob
    /\ prep = IdlePrep
    /\ units = [b \in BatchIds |-> IdleUnit]
    /\ merge = IdleMerge
    /\ sfn = IdleSfn
    /\ faults = 0
    /\ client = IdleClient

Prepare ==
    \/ PrepareStart
    \/ PrepareScan
    \/ PrepareWriteBatch
    \/ PrepareWriteWorkData
    \/ PrepareFinish

MapUnit(b) ==
    \/ MapTranslate(b)
    \/ MapIncrement(b)
    \/ MapProgress(b)

Merge ==
    \/ MergeStart
    \/ MergeApply
    \/ MergeUpload
    \/ MergeCleanup
    \/ MergeFinish

Next ==
    \/ Prepare
    \/ \E b \in BatchIds : MapUnit(b)
    \/ Merge
    \/ SfnDispatch
    \/ SfnStartMerge
    \/ SfnSucceed
    \/ SfnPrepareFailed
    \/ SfnMergeFailed

Spec == Init /\ [][Next]_vars

\* ------------------------------------------------------------------------
\* Specification of Prepare alone, over every document of NumCells cells
\* ------------------------------------------------------------------------
InitPrepare ==
    /\ \E d \in Documents(CellValues) : s3 = (SourceKey :> d)
    /\ job = SubmittedJob
    /\ prep = IdlePrep
    /\ units = [b \in BatchIds |-> IdleUnit]
    /\ merge = IdleMerge
    /\ sfn = IdleSfn
    /\ faults = 0
    /\ client = IdleClient

NextPrepare ==
    \/ Prepare
    \/ SfnDispatch
    \/ SfnPrepareFailed

SpecPrepare == InitPrepare /\ [][NextPrepare]_vars

\* ------------------------------------------------------------------------
\* Specification of at-least-once dispatch: a Map unit that ended is
\* dispatched again for the same batchId; no call fails
\* ------------------------------------------------------------------------
InitRedispatch ==
    /\ \E d \in PipelineDocuments : s3 = (SourceKey :> d)
    /\ job = SubmittedJob
    /\ prep = IdlePrep
    /\ units = [b \in BatchIds |-> IdleUnit]
    /\ merge = IdleMerge
    /\ sfn = IdleSfn
    /\ faults = MaxFaults
    /\ client = IdleClient

NextRedispatch ==
    \/ Prepare
    \/ \E b \in BatchIds : MapUnit(b)
    \/ Merge
    \/ SfnDispatch
    \/ \E b \in BatchIds : SfnRedispatch(b)
    \/ SfnStartMerge
    \/ SfnSucceed

SpecRedispatch == InitRedispatch /\ [][NextRedispatch]_vars

\* ------------------------------------------------------------------------
\* Specification of repeated executions: the state machine is started
\* again for the job id after an execution ended; the documents hold one
\* translatable text
\* ------------------------------------------------------------------------
RestartDocuments == Documents({Str(TextA), Str(<<"4", "2">>)})

InitRestart ==
    /\ \E d \in RestartDocuments : s3 = (SourceKey :> d)
    /\ job = SubmittedJob
    /\ prep = IdlePrep
    /\ units = [b \in BatchIds |-> IdleUnit]
    /\ merge = IdleMerge
    /\ sfn = IdleSfn
    /\ faults = 0
    /\ client = IdleClient

NextRestart ==
    \/ Next
    \/ SfnRestart

SpecRestart == InitRestart /\ [][NextRestart]_vars

\* ------------------------------------------------------------------------
\* Specification of a repeated Prepare: Prepare is invoked once more with
\* the same event after it returned; no call fails
\* ------------------------------------------------------------------------
SfnRePrepare ==
    /\ sfn.stage = "prepare"
    /\ prep.pc = "returned"
    /\ sfn.n < MaxExecutions
    /\ sfn' = [sfn EXCEPT !.stage = "idle"]
    /\ prep' = IdlePrep
    /\ UNCHANGED <<s3, job, units, merge, faults, client>>

InitRePrepare ==
    /\ \E d \in PipelineDocuments : s3 = (SourceKey :> d)
    /\ job = SubmittedJob
    /\ prep = IdlePrep
    /\ units = [b \in BatchIds |-> IdleUnit]
    /\ merge = IdleMerge
    /\ sfn = IdleSfn
    /\ faults = MaxFaults
    /\ client = IdleClient

NextRePrepare ==
    \/ Prepare
    \/ SfnRePrepare
    \/ SfnDispatch

SpecRePrepare == InitRePrepare /\ [][NextRePrepare]_vars

\* ------------------------------------------------------------------------
\* Specification of the Map units under any totalBatches: the Map units are
\* invoked with an event whose totalBatches is any number from 0 to the
\* most batches a document gives
\* ------------------------------------------------------------------------
SfnDispatchAnyTotal ==
    /\ sfn.stage = "prepare"
    /\ prep.pc = "returned"
    /\ \E total_batches \in 0..MaxBatches :
        /\ sfn' = [sfn EXCEPT !.stage = "map", !.total = total_batches,
                              !.stats = PrepareStats(prep)]
        /\ units' = [b \in BatchIds |->
                        IF \E i \in 1..Len(prep.batches) : prep.batches[i].batchId = b
                        THEN [IdleUnit EXCEPT !.pc = "start", !.runs = 1,
                                              !.total = total_batches]
                        ELSE IdleUnit]
    /\ UNCHANGED <<s3, job, prep, merge, faults, client>>

InitMapEvent ==
    /\ \E d \in PipelineDocuments : s3 = (SourceKey :> d)
    /\ job = SubmittedJob
    /\ prep = IdlePrep
    /\ units = [b \in BatchIds |-> IdleUnit]
    /\ merge = IdleMerge
    /\ sfn = IdleSfn
    /\ faults = 0
    /\ client = IdleClient

NextMapEvent ==
    \/ Prepare
    \/ SfnDispatchAnyTotal
    \/ \E b \in BatchIds : MapUnit(b)

SpecMapEvent == InitMapEvent /\ [][NextMapEvent]_vars

\* ------------------------------------------------------------------------
\* Specification of the TranslationClient on its own: one invocation of
\* translate_texts_batch or of translate_single_text, for every sequence of
\* answers the inference service can give to its attempts
\* ------------------------------------------------------------------------
\* what bedrock_client.converse answers to one batch call: the array of
\* translations, a JSON value that is no array of objects, a
\* ThrottlingException, another ClientError, another exception
ClientBatchAnswers ==
    {OkReply([shape |-> "array",
              entries |-> <<Entry(TRUE, PyInt(0), Str(Translated))>>]),
     OkReply([shape |-> "other", entries |-> <<>>]),
     FailReply("throttle"), FailReply("error"), FailReply("exception")}

\* what bedrock_client.converse answers to one single-text call
ClientSingleAnswers ==
    {OkReply(Translated), FailReply("throttle"), FailReply("error"),
     FailReply("exception")}

\* translate_texts_batch([text], ...) is invoked
ClientTranslateBatch ==
    /\ client.pc = "ready"
    /\ client.op = "batch"
    /\ LET out == translate_texts_batch(<<TextA>>, client.replies) IN
        client' = [client EXCEPT !.pc = "done", !.calls = out.calls,
                                 !.waited = out.waited, !.raised = out.raised]
    /\ UNCHANGED <<s3, job, prep, units, merge, sfn, faults>>

\* translate_single_text(text, ...) is invoked
ClientTranslateSingle ==
    /\ client.pc = "ready"
    /\ client.op = "single"
    /\ LET out == translate_single_text(TextA, client.replies) IN
        client' = [client EXCEPT !.pc = "done", !.calls = out.calls,
                                 !.waited = out.waited]
    /\ UNCHANGED <<s3, job, prep, units, merge, sfn, faults>>

InitClient ==
    /\ s3 = (SourceKey :> [i \in 1..NumCells |-> Str(TextA)])
    /\ job = SubmittedJob
    /\ prep = IdlePrep
    /\ units = [b \in BatchIds |-> IdleUnit]
    /\ merge = IdleMerge
    /\ sfn = IdleSfn
    /\ faults = 0
    /\ \/ \E replies \in [1..BatchMaxRetries -> ClientBatchAnswers] :
            client = [IdleClient EXCEPT !.pc = "ready", !.op = "batch",
                                        !.replies = replies]
       \/ \E replies \in [1..SingleMaxRetries -> ClientSingleAnswers] :
            client = [IdleClient EXCEPT !.pc = "ready", !.op = "single",
                                        !.replies = replies]

NextClient ==
    \/ ClientTranslateBatch
    \/ ClientTranslateSingle

SpecClient == InitClient /\ [][NextClient]_vars

\* ------------------------------------------------------------------------
\* The classifier on its own: should_skip_text is called on one text and,
\* in between, on other texts
\* ------------------------------------------------------------------------
TextNumber == <<"1", "2", "3", ".", "4", "5">>
TextUrl == <<"h", "t", "t", "p", "s", ":", "/", "/", "x", ".", "c", "o", "m">>
TextEmpty == <<>>
TextSentence ==
    <<"H", "e", "l", "l", "o", ",", " ", "h", "o", "w", " ", "a", "r">> \o
    <<"e", " ", "y", "o", "u", " ", "t", "o", "d", "a", "y", "?">>
ExampleTexts == {TextNumber, TextUrl, TextEmpty, TextSentence}

\* the characters of the enumerated texts
TextAlphabet == {"1", ".", "-", ":", "/", "$", " ", "a", "A", "KANA"}
RECURSIVE TextsUpTo(_)
TextsUpTo(n) ==
    IF n = 0 THEN {<<>>}
    ELSE LET shorter == TextsUpTo(n - 1) IN
         shorter \cup {Append(t, c) : t \in shorter, c \in TextAlphabet}
ClassifierTexts == ExampleTexts \cup TextsUpTo(MaxTextLen)

\* one call of should_skip_text, on the text of the behaviour or on one of
\* the example texts; results keeps what each call returned
Classify ==
    /\ client.op = "classify"
    /\ Len(client.results) < MaxClassifyCalls
    /\ \E text \in {client.text} \cup ExampleTexts :
        client' = [client EXCEPT !.results =
                        Append(@, [text |-> text, skip |-> should_skip_text(text)])]
    /\ UNCHANGED <<s3, job, prep, units, merge, sfn, faults>>

InitClassify ==
    /\ s3 = (SourceKey :> [i \in 1..NumCells |-> Str(TextA)])
    /\ job = SubmittedJob
    /\ prep = IdlePrep
    /\ units = [b \in BatchIds |-> IdleUnit]
    /\ merge = IdleMerge
    /\ sfn = IdleSfn
    /\ faults = 0
    /\ \E text \in ClassifierTexts :
        client = [pc |-> "ready", op |-> "classify", text |-> text,
                  results |-> <<>>]

NextClassify == Classify

SpecClassify == InitClassify /\ [][NextClassify]_vars

\* ------------------------------------------------------------------------
\* The response parser of translate_texts_batch on its own: one response
\* for a batch of two texts is parsed item by item or line by line
\* ------------------------------------------------------------------------
ParseTexts == <<TextA, TextB>>
OtherTranslation == <<"x">>

\* the objects of a response: ids below, inside and above the index range
\* of the batch, or no id member
ResponseItems ==
    {Line("fragment", id, Str(t)) :
        id \in {PyInt(-1), PyInt(0), PyInt(1), PyInt(2), Missing},
        t \in {Translated, OtherTranslation}}
\* the lines of a response that is not one JSON value
ResponseLines ==
    ResponseItems
    \cup {Line("embedded", PyInt(n), Str(Translated)) : n \in {0, 1}}
    \cup {Line(k, Missing, Missing) : k \in {"malformed", "noise", "fence"}}

SeqsUpTo(S, n) == UNION {[1..k -> S] : k \in 0..n}

\* lines 71-80 and 87-89: the fence is stripped and json.loads either
\* gives the array or raises JSONDecodeError
ParseBegin ==
    /\ client.op = "parse"
    /\ client.pc = "ready"
    /\ client' = [client EXCEPT !.pc = "scan",
                    !.todo = IF client.shape = "lines"
                             THEN StripFence(client.response)
                             ELSE client.response]
    /\ UNCHANGED <<s3, job, prep, units, merge, sfn, faults>>

\* lines 81-86: one iteration of for item in parsed
ParseItem ==
    /\ client.op = "parse"
    /\ client.pc = "scan"
    /\ client.shape = "array"
    /\ Len(client.todo) > 0
    /\ client' = [client EXCEPT
                    !.translations = ParseArray(<<Head(client.todo)>>, ParseTexts, @),
                    !.seen = Append(@, Head(client.todo)),
                    !.todo = Tail(@)]
    /\ UNCHANGED <<s3, job, prep, units, merge, sfn, faults>>

\* lines 90-100: one iteration of for line in result.split
ParseLine ==
    /\ client.op = "parse"
    /\ client.pc = "scan"
    /\ client.shape = "lines"
    /\ Len(client.todo) > 0
    /\ client' = [client EXCEPT
                    !.translations = ParseLines(<<Head(client.todo)>>, ParseTexts, @),
                    !.seen = Append(@, Head(client.todo)),
                    !.todo = Tail(@)]
    /\ UNCHANGED <<s3, job, prep, units, merge, sfn, faults>>

\* lines 102-103: return translations
ParseReturn ==
    /\ client.op = "parse"
    /\ client.pc = "scan"
    /\ Len(client.todo) = 0
    /\ client' = [client EXCEPT !.pc = "done"]
    /\ UNCHANGED <<s3, job, prep, units, merge, sfn, faults>>

InitParse ==
    /\ s3 = (SourceKey :> [i \in 1..NumCells |-> Str(TextA)])
    /\ job = SubmittedJob
    /\ prep = IdlePrep
    /\ units = [b \in BatchIds |-> IdleUnit]
    /\ merge = IdleMerge
    /\ sfn = IdleSfn
    /\ faults = 0
    /\ \/ \E response \in SeqsUpTo(ResponseItems, MaxLines) :
            client = [pc |-> "ready", op |-> "parse", shape |-> "array",
                      response |-> response, todo |-> <<>>, seen |-> <<>>,
                      translations |-> EmptyDict]
       \/ \E response \in SeqsUpTo(ResponseLines, MaxLines) :
            client = [pc |-> "ready", op |-> "parse", shape |-> "lines",
                      response |-> response, todo |-> <<>>, seen |-> <<>>,
                      translations |-> EmptyDict]

NextParse ==
    \/ ParseBegin
    \/ ParseItem
    \/ ParseLine
    \/ ParseReturn

SpecParse == InitParse /\ [][NextParse]_vars

\* ------------------------------------------------------------------------
\* update_batch_progress on its own, with the time estimates: the counter
\* of the job record, the totalBatches and the startTime of the event and
\* the clock are the inputs
\* ------------------------------------------------------------------------
\* int() of the quotient num / den of two integers, den > 0: the fraction
\* is cut off toward zero
IntOfQuotient(num, den) ==
    IF num >= 0 THEN num \div den ELSE 0 - ((0 - num) \div den)

\* lines 156-168: start is "none" for an event without startTime, "bad"
\* for a startTime that datetime.fromisoformat rejects, "ok" otherwise;
\* elapsed is datetime.now - start_dt in seconds
TimeEstimates(completed, total_batches, start, elapsed) ==
    IF start # "ok"
    THEN [elapsedSeconds |-> Absent, estimatedRemainingSeconds |-> Absent]
    ELSE [elapsedSeconds |-> elapsed,
          estimatedRemainingSeconds |->
            IF completed > 0
            THEN IntOfQuotient(elapsed * (total_batches - completed), completed)
            ELSE Absent]

\* lines 148-168: progress_data
ProgressData(completed, total_batches, start, elapsed) ==
    LET p == TranslatingProgress(completed, total_batches)
        t == TimeEstimates(completed, total_batches, start, elapsed)
    IN [phase |-> p.phase, percent |-> p.percent,
        completedBatches |-> p.completedBatches, totalBatches |-> p.totalBatches,
        elapsedSeconds |-> t.elapsedSeconds,
        estimatedRemainingSeconds |-> t.estimatedRemainingSeconds]

\* lines 129-177: the increment and the progress snapshot of one call
EtaUpdateProgress ==
    /\ client.op = "progress"
    /\ client.pc = "ready"
    /\ LET item == IncrementCompleted([completedBatches |-> client.counter])
           completed == item.completedBatches
       IN client' = [client EXCEPT !.pc = "done", !.counter = completed,
                        !.progress = ProgressData(completed, client.total_batches,
                                                  client.start, client.elapsed)]
    /\ UNCHANGED <<s3, job, prep, units, merge, sfn, faults>>

\* the counter before the call is absent or counts the Map units that ran
\* before this one, re-dispatched units included
InitEta ==
    /\ s3 = (SourceKey :> [i \in 1..NumCells |-> Str(TextA)])
    /\ job = SubmittedJob
    /\ prep = IdlePrep
    /\ units = [b \in BatchIds |-> IdleUnit]
    /\ merge = IdleMerge
    /\ sfn = IdleSfn
    /\ faults = 0
    /\ \E total_batches \in 1..MaxBatches,
          start \in {"none", "bad", "ok"}, elapsed \in 0..MaxElapsed :
        \E counter \in {Absent} \cup 0..(total_batches + MaxRedispatch - 1) :
            /\ start # "ok" => elapsed = 0
            /\ client = [pc |-> "ready", op |-> "progress", counter |-> counter,
                         total_batches |-> total_batches, start |-> start,
                         elapsed |-> elapsed, progress |-> NoProgress]

NextEta == EtaUpdateProgress

SpecEta == InitEta /\ [][NextEta]_vars

\* ------------------------------------------------------------------------
\* Several jobs in one blob store: Prepare and Map units of any job write
\* their artifacts, and the cleanup sweep runs for one job
\* ------------------------------------------------------------------------
\* job ids: the non-empty strings of up to MaxJobIdLen characters, so that
\* one id is a prefix of another; an id holds no slash
JobIdChars == {"j", "1"}
JobIds == UNION {[1..n -> JobIdChars] : n \in 1..MaxJobIdLen}
\* batch ids of one and of two digits, one a prefix of the other
JobsBatchIds == {1, 11}

\* the write of this step is within the budget of the behaviour
JobsCount ==
    /\ client.op = "jobs"
    /\ client.n < MaxObjects

\* prepare_handler lines 264-275: Prepare of job j stores batch b
JobsPrepareBatch ==
    /\ JobsCount
    /\ \E j \in JobIds, b \in JobsBatchIds :
        s3' = Put(s3, BatchKey(j, b), [texts |-> <<TextA>>])
    /\ client' = [client EXCEPT !.n = @ + 1]
    /\ UNCHANGED <<job, prep, units, merge, sfn, faults>>

\* prepare_handler lines 284-300: Prepare of job j stores its work data
JobsPrepareWorkData ==
    /\ JobsCount
    /\ \E j \in JobIds :
        s3' = Put(s3, WorkDataKey(j), WorkData(IdlePrep))
    /\ client' = [client EXCEPT !.n = @ + 1]
    /\ UNCHANGED <<job, prep, units, merge, sfn, faults>>

\* translate_batch_handler lines 265-274: the Map unit of job j and batch b
\* stores its TranslationMap
JobsMapStore ==
    /\ JobsCount
    /\ \E j \in JobIds, b \in JobsBatchIds :
        /\ s3' = Put(s3, TranslationKey(j, b), [translations |-> EmptyDict])
        /\ client' = [client EXCEPT !.n = @ + 1,
                        !.units = @ \cup {[job |-> j, batch |-> b,
                                           key |-> TranslationKey(j, b)]}]
    /\ UNCHANGED <<job, prep, units, merge, sfn, faults>>

\* merge_handler lines 100-111: cleanup_work_data(job_id) for one job
JobsSweep ==
    /\ client.op = "jobs"
    /\ client.pc = "run"
    /\ \E j \in JobIds :
        /\ s3' = cleanup_work_data(s3, j, TRUE)
        /\ client' = [client EXCEPT !.pc = "swept", !.swept = j]
    /\ UNCHANGED <<job, prep, units, merge, sfn, faults>>

InitJobs ==
    /\ \E d \in {[i \in 1..NumCells |-> Str(TextA)]} :
        s3 = (SourceKey :> d) @@ (OutputKey(1) :> d)
    /\ job = SubmittedJob
    /\ prep = IdlePrep
    /\ units = [b \in BatchIds |-> IdleUnit]
    /\ merge = IdleMerge
    /\ sfn = IdleSfn
    /\ faults = 0
    /\ client = [pc |-> "run", op |-> "jobs", n |-> 0, units |-> {},
                 swept |-> <<>>]

NextJobs ==
    \/ JobsPrepareBatch
    \/ JobsPrepareWorkData
    \/ JobsMapStore
    \/ JobsSweep

SpecJobs == InitJobs /\ [][NextJobs]_vars

\* ========================================================================
\* Properties
\* ========================================================================
\* the value of the cell of CellRef c in the document that Merge uploaded
OutputValue(c) == s3[merge.output_key][CellIndex(c.sheet, c.coord)]

\* the persisted counter, 0 while the attribute does not exist
CompletedBatches == if_not_exists(job.completedBatches, 0)

\* the Map units whose atomic increment succeeded
Counted == {b \in BatchIds : units[b].completed # Absent}

\* the texts of the batch that Prepare stored for batchId b
BatchTexts(b) ==
    {s3[BatchKey(JobId, b)].texts[i] : i \in 1..Len(s3[BatchKey(JobId, b)].texts)}

\* C1: after Merge finishes, every CellRef of the WorkSnapshot has a
\* non-null, non-empty value in the output document.
C1_EveryCellRefHasValue ==
    merge.pc = "returned" =>
        \A k \in 1..Len(prep.cells) :
            /\ OutputValue(prep.cells[k]) # None
            /\ OutputValue(prep.cells[k]) # Str(<<>>)

\* C2: in Merge, for every CellRef whose text is absent from the union of
\* the loaded TranslationMaps, translateSingle is called inline for that
\* text.
C2_InlineFallbackOnMiss ==
    merge.pc \in {"upload", "cleanup", "finish", "returned"} =>
        \A k \in 1..Len(prep.cells) :
            ~ HasKey(merge.all_translations, prep.cells[k].text) =>
                prep.cells[k].text \in merge.single_calls

C4_CounterMonotoneAndBounded ==
    [][/\ if_not_exists(job'.completedBatches, 0) >= CompletedBatches
       /\ if_not_exists(job'.completedBatches, 0) <= sfn'.total]_vars

\* C5: no increment is lost: the N Map units whose increment succeeded
\* observed N distinct new counts 1..N and the persisted counter is N.
C5_NoLostIncrement ==
    /\ CompletedBatches = Cardinality(Counted)
    /\ {units[b].completed : b \in Counted} = 1..Cardinality(Counted)

\* C5 witness: two Map units have incremented the counter
C5_Witness ==
    /\ Cardinality(Counted) = 2
    /\ CompletedBatches = 2

\* C6: the Job status only moves forward through PREPARING, TRANSLATING,
\* MERGING, COMPLETED (or to FAILED), and a COMPLETED or FAILED status is
\* never changed by a later invocation.
StatusRank(status) ==
    CASE status = "PENDING" -> 0
      [] status = "PREPARING" -> 1
      [] status = "TRANSLATING" -> 2
      [] status = "MERGING" -> 3
      [] status = "COMPLETED" -> 4
      [] status = "FAILED" -> 4

C6_StatusMonotone ==
    [][\/ job'.status = job.status
       \/ /\ job.status \notin {"COMPLETED", "FAILED"}
          /\ StatusRank(job'.status) > StatusRank(job.status)]_vars

C8_MapUnitNeverRaises ==
    \A b \in BatchIds : units[b].pc # "raised"

\* C9: for every batch a Map unit attempted (it loaded the batch and the
\* blob store took its writes), the TranslationMap it produced has exactly
\* one entry for every text of the batch.
C9_MapHasEveryText ==
    \A b \in BatchIds :
        (sfn.stage = "map" /\ Terminal(units[b])
            /\ units[b].err # "ArtifactStorageError") =>
        /\ TranslationKey(JobId, b) \in DOMAIN s3
        /\ DOMAIN s3[TranslationKey(JobId, b)].translations = BatchTexts(b)

\* C10: the batches written by Prepare partition UniqueText: every unique
\* translatable text appears in exactly one batch, exactly once.
TranslatableTexts ==
    {s3[SourceKey][i].s : i \in {j \in 1..NumCells : is_translatable_cell(s3[SourceKey][j])}}

BatchOccurrences ==
    {o \in {k \in DOMAIN s3 : k.name = "batch"} \X (1..BATCH_SIZE + 1) :
        o[2] <= Len(s3[o[1]].texts)}

C10_BatchesPartitionUniqueText ==
    prep.pc \in {"finish", "returned"} =>
        /\ \A t \in TranslatableTexts :
             Cardinality({o \in BatchOccurrences : s3[o[1]].texts[o[2]] = t}) = 1
        /\ \A o \in BatchOccurrences : s3[o[1]].texts[o[2]] \in TranslatableTexts

\* C10 witness: Prepare returned two batches, the second one shorter
C10_Witness ==
    /\ prep.pc = "returned"
    /\ Len(prep.batches) = 2
    /\ Len(s3[BatchKey(JobId, 0)].texts) = BATCH_SIZE
    /\ Len(s3[BatchKey(JobId, 1)].texts) < BATCH_SIZE

\* C11: for N unique texts and batch size B, Prepare produces ceil(N/B)
\* batches with batchIds 0, 1, ... in order; every batch holds B texts
\* except the last, which holds the remaining N - (ceil(N/B) - 1) * B, and
\* the textCount of each descriptor is the size of its batch.
C11_BatchCountIdsAndSizes ==
    prep.pc \in {"finish", "returned"} =>
        LET N == Cardinality(TranslatableTexts)
            count == (N + BATCH_SIZE - 1) \div BATCH_SIZE
        IN /\ Len(prep.batches) = count
           /\ \A i \in 1..count :
                /\ prep.batches[i].batchId = i - 1
                /\ prep.batches[i].batchKey = BatchKey(JobId, i - 1)
                /\ Len(s3[prep.batches[i].batchKey].texts) =
                        IF i < count THEN BATCH_SIZE
                        ELSE N - (count - 1) * BATCH_SIZE
                /\ prep.batches[i].textCount = Len(s3[prep.batches[i].batchKey].texts)

\* C11 witness: Prepare returned a full batch 0 followed by a last batch 1
\* that holds the one remaining text
C11_Witness ==
    /\ prep.pc = "returned"
    /\ Cardinality(TranslatableTexts) = BATCH_SIZE + 1
    /\ Len(prep.batches) = 2
    /\ prep.batches[1].textCount = BATCH_SIZE
    /\ prep.batches[2].textCount = 1

\* C12: running Prepare twice on the same document yields the same batch
\* partition: a batch written again for a batchId holds the same texts in
\* the same order as the batch the earlier run wrote for that batchId.
C12_RePrepareSamePartition ==
    [][\A b \in BatchIds :
        (BatchKey(JobId, b) \in DOMAIN s3 /\ BatchKey(JobId, b) \in DOMAIN s3') =>
            s3'[BatchKey(JobId, b)].texts = s3[BatchKey(JobId, b)].texts]_vars

\* C13: cells whose raw texts are equal contribute exactly one UniqueText
\* entry, the text of every translatable CellRef is a member of UniqueText,
\* and after Merge all cells that shared one source text hold the same
\* output value.
C13_DedupAndSameOutput ==
    /\ prep.pc \in {"batches", "finish", "returned"} =>
        /\ \A a, b \in 1..Len(prep.texts) : prep.texts[a] = prep.texts[b] => a = b
        /\ \A k \in 1..Len(prep.cells) :
                \E a \in 1..Len(prep.texts) : prep.texts[a] = prep.cells[k].text
    /\ merge.pc \in {"cleanup", "finish", "returned"} =>
        \A k, l \in 1..Len(prep.cells) :
            prep.cells[k].text = prep.cells[l].text =>
                OutputValue(prep.cells[k]) = OutputValue(prep.cells[l])

\* C13 witness: Merge returned; two cells shared a source text and both hold
\* its translation, a third cell held another text
C13_Witness ==
    /\ merge.pc = "returned"
    /\ \E k, l, n \in 1..Len(prep.cells) :
        /\ k # l
        /\ prep.cells[k].text = prep.cells[l].text
        /\ prep.cells[n].text # prep.cells[k].text
        /\ OutputValue(prep.cells[k]) = Str(Translated)
        /\ OutputValue(prep.cells[l]) = Str(Translated)

C15_ArtifactsBeforeDescriptors ==
    /\ (prep.pc = "returned" \/ job.status = "TRANSLATING") =>
        /\ WorkDataKey(JobId) \in DOMAIN s3
        /\ \A b \in 0..(((Cardinality(TranslatableTexts) + BATCH_SIZE - 1)
                            \div BATCH_SIZE) - 1) :
                BatchKey(JobId, b) \in DOMAIN s3
        /\ \A i \in 1..Len(prep.batches) : prep.batches[i].batchKey \in DOMAIN s3
    /\ prep.err = "ArtifactStorageError" =>
        /\ prep.pc = "raised"
        /\ job.status # "TRANSLATING"

\* C15 witness: batch 0 was written, the next write failed and Prepare
\* raised with the Job still short of TRANSLATING
C15_Witness ==
    /\ prep.pc = "raised"
    /\ prep.err = "ArtifactStorageError"
    /\ BatchKey(JobId, 0) \in DOMAIN s3
    /\ WorkDataKey(JobId) \notin DOMAIN s3
    /\ job.status = "PREPARING"

\* C16: translateBatch calls the inference service at most 5 times and
\* translateSingle at most 3 times per invocation, every call after the
\* first follows a rate-limit failure of the call before it, and the
\* invocation ends whatever the service answers.
C16_BoundedAttempts ==
    client.pc = "done" =>
        /\ client.calls >= 1
        /\ client.op = "batch" => client.calls <= 5
        /\ client.op = "single" => client.calls <= 3
        /\ \A i \in 1..(client.calls - 1) : client.replies[i].kind = "throttle"

\* C16 witness: a batch invocation that made its fifth call after four
\* throttled calls
C16_Witness ==
    /\ client.pc = "done"
    /\ client.op = "batch"
    /\ client.calls = 5
    /\ client.replies[5].kind = "ok"

\* every attempt of the batch invocation is throttled
FullyThrottledBatch ==
    /\ client.pc = "done"
    /\ client.op = "batch"
    /\ \A i \in 1..BatchMaxRetries : client.replies[i].kind = "throttle"

\* C17 as stated: for a batch call throttled on every attempt the total
\* backoff wait is the sum of 2^(k+1) for k = 0..maxRetries-1, 62 seconds
\* for maxRetries = 5.
C17_TotalBackoffIs62 ==
    FullyThrottledBatch => client.waited = 2 + 4 + 8 + 16 + 32

\* C17 amended: for a batch call throttled on every attempt the total
\* backoff wait is the sum of 2^(k+1) for k = 0..maxRetries-2, 30 seconds
\* for maxRetries = 5: no wait follows the last attempt.
C17_TotalBackoffIs30 ==
    FullyThrottledBatch => (client.waited = 2 + 4 + 8 + 16 /\ client.raised)

\* C17 witness: a batch invocation throttled on all five attempts has ended
C17_Witness ==
    /\ FullyThrottledBatch
    /\ client.calls = 5
    /\ client.waited > 0

\* C18: a failure to persist progress never fails the batch: from the
\* moment its TranslationMap is stored, whether the counter increment or the
\* progress write fails or not (totalBatches = 0 included), the Map unit
\* does not raise, the value it returns has success = true, and its stored
\* TranslationMap stays as it was.
C18_ProgressNeverFailsBatch ==
    [][\A b \in BatchIds :
        units[b].pc \in {"stored", "counted"} =>
            /\ units'[b].pc \in {"stored", "counted", "returned"}
            /\ TranslationKey(JobId, b) \in DOMAIN s3'
            /\ s3'[TranslationKey(JobId, b)] = s3[TranslationKey(JobId, b)]
            /\ units'[b].pc = "returned" => BatchResult(b, s3').success]_vars

\* C18 witness: a Map unit invoked with totalBatches = 0 incremented the
\* counter, wrote no progress and returned, and another one returned after
\* its increment had failed
C18_Witness ==
    /\ \E b \in BatchIds :
        /\ units[b].pc = "returned"
        /\ units[b].total = 0
        /\ units[b].completed # Absent
        /\ job.progress.phase # "translating"
        /\ TranslationKey(JobId, b) \in DOMAIN s3
    /\ \E b \in BatchIds :
        /\ units[b].pc = "returned"
        /\ units[b].completed = Absent

\* C19: re-executing a Map unit for a batchId that was already executed
\* changes only the TranslationMap of that batch: every step of the second
\* execution leaves the other TranslationMaps, the batch artifacts, the
\* WorkSnapshot and the completedBatches counter as they were after the
\* first execution.
C19_ReExecutionFrame ==
    [][\A b \in BatchIds :
        (units[b].runs >= 2 /\ units'[b].runs = units[b].runs
            /\ units'[b] # units[b]) =>
            /\ DOMAIN s3' \ {TranslationKey(JobId, b)} =
                    DOMAIN s3 \ {TranslationKey(JobId, b)}
            /\ \A k \in DOMAIN s3 \ {TranslationKey(JobId, b)} : s3'[k] = s3[k]
            /\ job'.completedBatches = job.completedBatches]_vars

\* C20: when Merge has finalized the Job as COMPLETED, no batch, no
\* TranslationMap and no WorkSnapshot remains under the work prefix of the
\* job, for any number of batches.
C20_NoArtifactAfterCompleted ==
    job.status = "COMPLETED" => WorkKeys(s3, JobId) = {}

\* C21: the cleanup sweep is idempotent: where Merge runs cleanup_work_data,
\* running it twice leaves the blob store as running it once does, and
\* running it with no artifact under the prefix changes nothing.
C21_CleanupIdempotent ==
    merge.pc = "cleanup" =>
        /\ cleanup_work_data(cleanup_work_data(s3, JobId, TRUE), JobId, TRUE)
                = cleanup_work_data(s3, JobId, TRUE)
        /\ WorkKeys(s3, JobId) = {} => cleanup_work_data(s3, JobId, TRUE) = s3

\* the results Merge received all report success and the TranslationMap of
\* each of them was loaded into all_translations
AllSucceededAndLoaded ==
    /\ Len(merge.results) = sfn.total
    /\ \A i \in 1..Len(merge.results) :
        /\ merge.results[i].success
        /\ merge.results[i].translationKey \in DOMAIN s3
        /\ DOMAIN s3[merge.results[i].translationKey].translations
                \subseteq DOMAIN merge.all_translations

CellRefIndexes ==
    {CellIndex(prep.cells[k].sheet, prep.cells[k].coord) : k \in 1..Len(prep.cells)}

\* C23: Merge changes the value of a cell only if the cell is a CellRef of
\* the WorkSnapshot: no cell the classifier skipped is a CellRef when
\* Prepare returns, and in the workbook Merge saved and in the output
\* document it uploaded every cell that is not a CellRef has the value it
\* has in the source document.
C23_OnlyCellRefsChange ==
    /\ (prep.pc = "returned" /\ sfn.stage = "prepare") =>
        \A i \in 1..NumCells :
            ~ is_translatable_cell(s3[SourceKey][i]) => i \notin CellRefIndexes
    /\ merge.pc \in {"upload", "cleanup", "finish", "returned"} =>
        \A i \in 1..NumCells :
            i \notin CellRefIndexes
                => /\ merge.wb[i] = s3[SourceKey][i]
                   /\ s3[merge.output_key][i] = s3[SourceKey][i]

\* an output document in which a CellRef got its translation and a skipped
\* cell kept its value
C23_Witness ==
    /\ merge.pc = "returned"
    /\ merge.output_key # SourceKey
    /\ \E i, j \in 1..NumCells :
        /\ ~ is_translatable_cell(s3[SourceKey][i])
        /\ s3[merge.output_key][i] = s3[SourceKey][i]
        /\ j \in CellRefIndexes
        /\ s3[merge.output_key][j] = Str(Translated)

\* C24: the classifier skips 123.45, https://x.com and the empty text and
\* does not skip the sentence Hello, how are you today?; two calls on the
\* same text return the same result, whatever was classified in between.
C24_ClassifierExamplesAndDeterminism ==
    \A i \in 1..Len(client.results) :
        LET call == client.results[i] IN
        /\ call.text \in {TextNumber, TextUrl, TextEmpty} => call.skip
        /\ call.text = TextSentence => ~ call.skip
        /\ \A j \in 1..Len(client.results) :
            client.results[j].text = call.text => client.results[j].skip = call.skip

\* the sentence classified twice as translatable
C24_Witness ==
    /\ Len(client.results) = 2
    /\ client.results[1].text = TextSentence
    /\ client.results[2].text = TextSentence
    /\ ~ client.results[2].skip

\* C25: when the batch call of a Map unit fails with a failure that is not
\* a rate-limit failure, the texts of the batch go through the single-text
\* fallback and the unit still produces the TranslationMap of its batch:
\* the unit does not raise and the map is stored.
C25_PermanentFailureFallsBack ==
    \A b \in BatchIds :
        units[b].err = "ClientError" =>
            /\ units[b].pc # "raised"
            /\ TranslationKey(JobId, b) \in DOMAIN s3

\* the id of a response entry is an index of the batch
InRange(e) == e.id # Missing /\ 0 <= e.id.n /\ e.id.n < Len(ParseTexts)
\* the id of a response entry is an integer outside the index range
OutOfRange(e) == e.id # Missing /\ ~ InRange(e)
\* the scan takes one entry in this step
ParseStepTaken ==
    /\ client.op = "parse"
    /\ client.pc = "scan"
    /\ client'.pc = "scan"
    /\ Len(client'.seen) = Len(client.seen) + 1

\* C26: while the response entries are processed, an entry whose id is
\* outside 0..len(batch)-1 leaves the map as it is, and an entry whose id
\* is the id of an earlier parsed entry is discarded: the map, and with it
\* the translation recorded for that id, stays as it is.
C26_OutOfRangeAndDuplicateDiscarded ==
    [][ParseStepTaken =>
        LET e == Head(client.todo) IN
        /\ OutOfRange(e) => client'.translations = client.translations
        /\ (\E j \in 1..Len(client.seen) :
                /\ client.seen[j].wf
                /\ InRange(client.seen[j])
                /\ client.seen[j].id = e.id)
            => client'.translations = client.translations]_vars

\* C27: when the response is scanned line by line, every well-formed
\* fragment with an in-range id that the response holds is recovered,
\* whatever lines and text surround it: its text has an entry in the map
\* returned.
C27_LineScanRecoversEveryFragment ==
    (client.op = "parse" /\ client.pc = "done" /\ client.shape = "lines") =>
        \A i \in 1..Len(client.response) :
            LET line == client.response[i] IN
            (line.kind \in {"fragment", "embedded"} /\ InRange(line))
                => HasKey(client.translations, ParseTexts[line.id.n + 1])

\* the texts of the CellRefs in the order of their first occurrence
RECURSIVE FirstSeen(_, _)
FirstSeen(cells, seen) ==
    IF Len(cells) = 0 THEN seen
    ELSE FirstSeen(Tail(cells),
                   IF \E a \in 1..Len(seen) : seen[a] = Head(cells).text
                   THEN seen ELSE Append(seen, Head(cells).text))

\* the texts of the stored batches b, b+1, ... one after the other
RECURSIVE BatchesFrom(_)
BatchesFrom(b) ==
    IF b >= Len(prep.batches) THEN <<>>
    ELSE s3[BatchKey(JobId, b)].texts \o BatchesFrom(b + 1)

\* C28: UniqueText keeps first-seen order: once Prepare returned, the
\* batches in batchId order, one after the other, list the unique texts in
\* the order in which their first occurrence was met by the scan.
C28_FirstSeenOrder ==
    prep.pc = "returned" => BatchesFrom(0) = FirstSeen(prep.cells, <<>>)

\* C29: every percent written to the job record lies in the range of its
\* phase: exactly 5 when Prepare wrote it, 5 + floor(85 * completedBatches /
\* totalBatches) and within 5..90 when a Map unit wrote it, and within
\* 90..100 when Merge wrote it.
C29_PercentInPhaseRange ==
    LET p == job.progress IN
    /\ p.phase = "prepared" => p.percent = 5
    /\ p.phase = "translating" =>
        /\ p.percent = 5 + ((85 * p.completedBatches) \div p.totalBatches)
        /\ 5 <= p.percent /\ p.percent <= 90
    /\ p.phase = "merging" => (90 <= p.percent /\ p.percent <= 100)

\* C30: whenever the progress snapshot carries estimatedRemainingSeconds,
\* completedBatches is at least 1 and the value is floor((elapsed /
\* completed) * (totalBatches - completed)), which is not negative and is 0
\* when completed equals totalBatches; the field is left out when no batch
\* has completed.
C30_EtaFormulaAndSign ==
    (client.op = "progress" /\ client.pc = "done") =>
        LET p == client.progress
            eta == p.estimatedRemainingSeconds
        IN /\ eta # Absent =>
                /\ p.completedBatches >= 1
                /\ eta = (client.elapsed * (p.totalBatches - p.completedBatches))
                            \div p.completedBatches
                /\ eta >= 0
                /\ p.completedBatches = p.totalBatches => eta = 0
           /\ p.completedBatches < 1 => eta = Absent

\* every dispatched Map unit has ended
AllUnitsEnded ==
    /\ sfn.stage \in {"map", "merge", "succeeded", "failed"}
    /\ \A b \in Dispatched : Terminal(units[b])

\* C31: the stored progress snapshot is monotonic under concurrency: from
\* one write of a Map unit to the next the completedBatches and the percent
\* of the progress field never decrease, and once every Map unit has ended
\* the completedBatches of the progress field is the persisted counter.
C31_ProgressSnapshotMonotone ==
    /\ [][(job.progress.phase = "translating" /\ job'.progress.phase = "translating")
            => /\ job'.progress.completedBatches >= job.progress.completedBatches
               /\ job'.progress.percent >= job.progress.percent]_vars
    /\ [](( AllUnitsEnded /\ job.progress.phase = "translating")
            => job.progress.completedBatches = job.completedBatches)

\* the batches whose TranslationMap is in the blob store
StoredMaps == {b \in BatchIds : TranslationKey(JobId, b) \in DOMAIN s3}
\* a Map unit that ended without having stored its TranslationMap
FailedBeforePersisting(b) ==
    units[b].pc = "raised" /\ TranslationKey(JobId, b) \notin DOMAIN s3

\* C32 as stated: in every reachable state without re-dispatch the counter
\* is at most the number of batches whose TranslationMap exists in the blob
\* store, and a Map unit that failed before persisting has not incremented
\* the counter.
C32_CounterAtMostStoredMaps ==
    /\ CompletedBatches <= Cardinality(StoredMaps)
    /\ \A b \in BatchIds : FailedBeforePersisting(b) => units[b].completed = Absent

\* C32 amended: until the cleanup sweep of Merge has run, the counter is at
\* most the number of batches whose TranslationMap exists in the blob
\* store; a Map unit that failed before persisting has not incremented the
\* counter.
C32_CounterAtMostStoredMapsUntilCleanup ==
    /\ merge.pc \notin {"finish", "returned"}
        => CompletedBatches <= Cardinality(StoredMaps)
    /\ \A b \in BatchIds : FailedBeforePersisting(b) => units[b].completed = Absent

\* one Map unit has stored its map and incremented the counter, another has
\* failed before persisting and has not
C32_Witness ==
    /\ merge.pc \notin {"finish", "returned"}
    /\ CompletedBatches = 1
    /\ Cardinality(StoredMaps) = 1
    /\ \E b \in BatchIds : FailedBeforePersisting(b) /\ units[b].completed = Absent

\* C33: the Job is COMPLETED only after the output document was uploaded:
\* whenever the status is COMPLETED the outputS3Key of the job record names
\* an object written under translated/ that is in the blob store, and a
\* Merge whose save or upload failed leaves the status different from
\* COMPLETED.
C33_CompletedOnlyAfterUpload ==
    /\ job.status = "COMPLETED" =>
        /\ job.outputS3Key.prefix = "translated"
        /\ job.outputS3Key \in DOMAIN s3
    /\ (merge.pc = "raised" /\ merge.err = "DocumentWriteError")
        => job.status # "COMPLETED"

\* a COMPLETED job whose output document is in the blob store
C33_Witness ==
    /\ job.status = "COMPLETED"
    /\ merge.pc = "returned"
    /\ job.outputS3Key \in DOMAIN s3
    /\ job.outputS3Key # SourceKey

\* C34: Map units with different batchIds or of different jobs never write
\* the same blob-store key: the key string a unit writes is
\* excel-work/<jobId>/translation_<batchId>.json, and two units that wrote
\* the same key string are the same unit.
C34_MapUnitsWriteDistinctKeys ==
    client.op = "jobs" =>
        \A u \in client.units :
            /\ KeyString(u.key) =
                    WorkPrefix(u.job) \o <<"translation", "_">> \o Decimal(u.batch)
                        \o <<".json">>
            /\ \A v \in client.units :
                KeyString(u.key) = KeyString(v.key)
                    => (u.job = v.job /\ u.batch = v.batch)

\* the units j/11 and j1/1 both stored their map and both maps are there
C34_Witness ==
    /\ client.op = "jobs"
    /\ client.pc = "run"
    /\ \E u, v \in client.units :
        /\ u.job = <<"j">> /\ u.batch = 11
        /\ v.job = <<"j", "1">> /\ v.batch = 1
        /\ u.key \in DOMAIN s3
        /\ v.key \in DOMAIN s3

\* C36: the cleanup sweep for one job deletes only keys of that job under
\* excel-work/<jobId>/: the artifacts of every other job, also of a job
\* whose id starts with the id of this job, and the source and translated
\* documents are left as they are, and nothing is added.
C36_SweepTouchesOwnPrefixOnly ==
    [][(client.op = "jobs" /\ client.pc = "run" /\ client'.pc = "swept") =>
        /\ DOMAIN s3' \subseteq DOMAIN s3
        /\ \A k \in DOMAIN s3 :
            (k.prefix = "excel-work" /\ k.job = client'.swept)
            \/ (k \in DOMAIN s3' /\ s3'[k] = s3[k])]_vars

\* the sweep for job j ran: the map of a unit of job j is gone, the map of a
\* unit of job j1 and the two documents are still there
C36_Witness ==
    /\ client.op = "jobs"
    /\ client.pc = "swept"
    /\ client.swept = <<"j">>
    /\ \E u, v \in client.units :
        /\ u.job = <<"j">> /\ u.key \notin DOMAIN s3
        /\ v.job = <<"j", "1">> /\ v.key \in DOMAIN s3
    /\ SourceKey \in DOMAIN s3
    /\ OutputKey(1) \in DOMAIN s3

\* the scan of Prepare found no translatable cell in the document
NoTranslatableCell ==
    /\ prep.pc \in {"batches", "finish", "returned"}
    /\ prep.cells = <<>>

\* C35: for a document with no translatable cell Prepare writes a WorkSnapshot
\* with zero CellRefs and no batch artifact, returns zero batch descriptors
\* and totalBatches = 0 and, its update of the job record succeeding, leaves
\* the status TRANSLATING; no Map unit is dispatched, and Merge, run with an
\* empty batchResults list, translates zero cells, uploads a document in which
\* every cell has the value of the source document and, its update of the job
\* record succeeding, leaves the job COMPLETED with translatedCells = 0.
C35_NothingToTranslate ==
    /\ (NoTranslatableCell /\ prep.pc = "batches") =>
            /\ prep.texts = <<>>
            /\ prep.batches = <<>>
    /\ (NoTranslatableCell /\ prep.pc \in {"finish", "returned"}
            /\ sfn.stage = "prepare") =>
            /\ WorkDataKey(JobId) \in DOMAIN s3
            /\ s3[WorkDataKey(JobId)].cells = <<>>
            /\ s3[WorkDataKey(JobId)].uniqueTexts = 0
            /\ s3[WorkDataKey(JobId)].batchCount = 0
            /\ prep.batches = <<>>
            /\ \A b \in BatchIds : BatchKey(JobId, b) \notin DOMAIN s3
            /\ (prep.pc = "returned" /\ faults = 0) => job.status = "TRANSLATING"
    /\ (NoTranslatableCell /\ sfn.stage \in {"map", "merge", "succeeded"}) =>
            /\ sfn.total = 0
            /\ sfn.stats.batchCount = 0
            /\ Dispatched = {}
    /\ (NoTranslatableCell /\ sfn.stage = "merge" /\ merge.pc # "idle") =>
            merge.results = <<>>
    /\ (merge.results = <<>>
            /\ merge.pc \in {"upload", "cleanup", "finish", "returned"}) =>
            /\ merge.translated_count = 0
            /\ merge.wb = s3[SourceKey]
    /\ (merge.results = <<>> /\ merge.pc \in {"cleanup", "finish", "returned"}) =>
            s3[merge.output_key] = s3[SourceKey]
    /\ (merge.results = <<>> /\ merge.pc = "returned"
            /\ (merge.finalized \/ faults = 0)) =>
            /\ job.status = "COMPLETED"
            /\ job.stats.translatedCells = 0
            /\ job.outputS3Key = merge.output_key

\* C35 witness: the job of a document in which the classifier skips every
\* cell is COMPLETED after a Merge with no BatchResult, with no artifact of
\* a batch ever written
C35_Witness ==
    /\ merge.pc = "returned"
    /\ merge.results = <<>>
    /\ job.status = "COMPLETED"
    /\ job.stats.translatedCells = 0
    /\ sfn.total = 0
    /\ prep.pc = "returned"
    /\ prep.cells = <<>>
    /\ \A i \in 1..NumCells : ~ is_translatable_cell(s3[SourceKey][i])
    /\ s3[merge.output_key] = s3[SourceKey]
====
